---- MODULE Spec2Model ----
(***************************************************************************)
(* Checkers: the Board rules engine (board.py, piece.py, coordinate.py)    *)
(* and the search engine (ai_player.py).                                   *)
(*                                                                         *)
(* Piece objects live in a heap `pieces` (object id -> fields); the 8x8    *)
(* grid `board` holds object ids, EMPTY where the source holds None, so    *)
(* that a cell and the Piece it refers to can disagree and one object can  *)
(* sit in two cells if the code lets it.  Every Board method is an         *)
(* operator on a record `self` of the Board's fields; the actions apply    *)
(* these operators to the live Board held in the variables.                *)
(***************************************************************************)
EXTENDS Integers, FiniteSets, Sequences, TLC

VARIABLES
  board,               \* Board._board[row][col]: a piece object id or EMPTY
  pieces,              \* the Piece objects: id -> [row, col, color, is_king]
  selected_piece,      \* Board.__selected_piece: a piece id or EMPTY
  valid_moves,         \* Board._valid_moves: set of Coordinates
  black_regular_left, black_kings_left, black_pieces_left,
  red_regular_left, red_kings_left, red_pieces_left,
  current_turn,        \* Board._current_turn: "BLACK" or "RED"
  last,                \* the last call made on the Board and what it returned
  prev,                \* the Board as it was before the last call
  steps,               \* number of calls made so far
  ai,                  \* the call of AI.minimax in progress or last made
  copied,              \* the board AI.result returned last
  jumping,             \* the call of Board.perform_multiple_jumps in progress
  game                 \* the game loop of main(): where it is and what it did

vars == << board, pieces, selected_piece, valid_moves,
           black_regular_left, black_kings_left, black_pieces_left,
           red_regular_left, red_kings_left, red_pieces_left,
           current_turn, last, prev, steps, ai, copied, jumping, game >>

\* Number of Board calls explored from each initial position.
MaxSteps == 2

\* Number of clicks and AI steps explored in the game loop.
MaxEvents == 4

\* Number of calls of AI.minimax and of Board calls between them explored from
\* each initial position of the search.
MaxCalls == 3

DIMENSIONS == 8
EMPTY == 0
PIECE_BLACK == "PIECE_BLACK"
PIECE_RED == "PIECE_RED"
BLACK == "BLACK"
RED == "RED"

Rows == 0 .. (DIMENSIONS - 1)
Cells == Rows \X Rows

abs(x) == IF x < 0 THEN -x ELSE x

-----------------------------------------------------------------------------
(* coordinate.py *)

Coordinate(row, col) == << row, col >>

is_in_bounds(coord) ==
  /\ 0 <= coord[1] /\ coord[1] < 8
  /\ 0 <= coord[2] /\ coord[2] < 8

-----------------------------------------------------------------------------
(* piece.py *)

\* Piece.__init__ (a new piece is never a king); the fourth argument is for
\* writing down pieces of a position reached by play.
Piece(row, col, color, is_king) ==
  [row |-> row, col |-> col, color |-> color, is_king |-> is_king]

\* A king() that sets is_king to whether the piece stands on its promotion
\* row, so that a king leaving the row is a king no more: C8 excludes it.
king_by_row(p) ==
  LET is_correct_row ==
        \/ (p.color = PIECE_BLACK /\ p.row = 7)
        \/ (p.color = PIECE_RED /\ p.row = 0)
  IN [piece |-> [p EXCEPT !.is_king = is_correct_row],
      ret |-> is_correct_row /\ ~p.is_king]

\* A king() that knows one promotion row only, row 7, and so never crowns a
\* RED piece: C35 excludes it.
king_on_last_row(p) ==
  IF p.color = PIECE_BLACK /\ p.row = 7 /\ ~p.is_king
    THEN [piece |-> [p EXCEPT !.is_king = TRUE], ret |-> TRUE]
    ELSE [piece |-> p, ret |-> FALSE]

\* Piece.king: the piece after the call, and the value returned.
king(p) ==
  LET is_correct_row ==
        \/ (p.color = PIECE_BLACK /\ p.row = 7)
        \/ (p.color = PIECE_RED /\ p.row = 0)
  IN IF is_correct_row /\ ~p.is_king
       THEN [piece |-> [p EXCEPT !.is_king = TRUE], ret |-> TRUE]
       ELSE [piece |-> p, ret |-> FALSE]

-----------------------------------------------------------------------------
(* board.py: queries *)

get_piece(self, coord) == self.board[coord[1]][coord[2]]

get_move_type(self, piece, destination) ==
  LET p == self.pieces[piece]
      row_diff == destination[1] - p.row
      col_diff == destination[2] - p.col
  IN IF abs(col_diff) = 1 /\ ( \/ p.is_king
                               \/ (p.color = PIECE_BLACK /\ row_diff = 1)
                               \/ (p.color = PIECE_RED /\ row_diff = -1) )
       THEN "ADJACENT"
     ELSE IF abs(col_diff) = 2 /\ ( \/ p.is_king
                                    \/ (p.color = PIECE_BLACK /\ row_diff = 2)
                                    \/ (p.color = PIECE_RED /\ row_diff = -2) )
       THEN "JUMP"
     ELSE "NONE"

\* An __is_valid_move that does not look at the colour of the piece jumped
\* over: C9 excludes it.
is_valid_move_any_colour(self, piece, destination) ==
  LET p == self.pieces[piece]
      start == Coordinate(p.row, p.col)
  IN IF ~(is_in_bounds(start) /\ is_in_bounds(destination))
       THEN FALSE
     ELSE IF piece = EMPTY \/ get_piece(self, destination) # EMPTY
       THEN FALSE
     ELSE IF get_move_type(self, piece, destination) = "ADJACENT"
       THEN TRUE
     ELSE
       LET middle_row == start[1] + ((destination[1] - start[1]) \div 2)
           middle_col == start[2] + ((destination[2] - start[2]) \div 2)
       IN /\ get_move_type(self, piece, destination) = "JUMP"
          /\ get_piece(self, Coordinate(middle_row, middle_col)) # EMPTY

\* Board.__is_valid_move
is_valid_move(self, piece, destination) ==
  LET p == self.pieces[piece]
      start == Coordinate(p.row, p.col)
  IN IF ~(is_in_bounds(start) /\ is_in_bounds(destination))
       THEN FALSE
     ELSE IF piece = EMPTY \/ get_piece(self, destination) # EMPTY
       THEN FALSE
     ELSE IF get_move_type(self, piece, destination) = "ADJACENT"
       THEN TRUE
     ELSE
       LET row_diff == destination[1] - start[1]
           col_diff == destination[2] - start[2]
           middle_row == start[1] + (row_diff \div 2)
           middle_col == start[2] + (col_diff \div 2)
           middle_piece == get_piece(self, Coordinate(middle_row, middle_col))
       IN /\ get_move_type(self, piece, destination) = "JUMP"
          /\ middle_piece # EMPTY
          /\ self.pieces[middle_piece].color # p.color

jump_directions(p) ==
  (IF p.color = PIECE_BLACK \/ p.is_king THEN { <<2, -2>>, <<2, 2>> } ELSE {})
  \cup
  (IF p.color = PIECE_RED \/ p.is_king THEN { <<-2, -2>>, <<-2, 2>> } ELSE {})

get_single_jumps(self, piece) ==
  LET p == self.pieces[piece]
  IN { jump_destination \in
         { Coordinate(p.row + d[1], p.col + d[2]) : d \in jump_directions(p) } :
       is_valid_move(self, piece, jump_destination) }

directions(p) ==
  (IF p.color = PIECE_BLACK \/ p.is_king THEN { <<1, -1>>, <<1, 1>> } ELSE {})
  \cup
  (IF p.color = PIECE_RED \/ p.is_king THEN { <<-1, -1>>, <<-1, 1>> } ELSE {})

\* Board.__get_adjacent_moves
get_adjacent_moves(self, piece) ==
  LET p == self.pieces[piece]
  IN { destination \in
         { Coordinate(p.row + d[1], p.col + d[2]) : d \in directions(p) } :
       is_valid_move(self, piece, destination) }

\* A get_valid_moves that offers the adjacent moves beside the jumps: C3
\* excludes it.
get_valid_moves_both(self, piece) ==
  get_adjacent_moves(self, piece) \cup get_single_jumps(self, piece)

\* Board.get_valid_moves: the set returned, which the call also stores in
\* self._valid_moves (see the actions and move).
get_valid_moves(self, piece) ==
  LET adjacent_moves == get_adjacent_moves(self, piece)
      jump_moves == get_single_jumps(self, piece)
  IN IF Cardinality(jump_moves) > 0 THEN jump_moves ELSE adjacent_moves

\* The colour argument is either a piece colour or a turn string.
normalize_color(color) ==
  IF color \in { PIECE_BLACK, PIECE_RED } THEN color
  ELSE IF color = BLACK THEN PIECE_BLACK ELSE PIECE_RED

\* A pieces_with_valid_moves that returns every piece of the colour that has
\* a jump or an adjacent move: C2 excludes it.
pieces_with_any_move(self, color) ==
  { get_piece(self, coord) : coord \in
      { x \in Cells :
          /\ get_piece(self, x) # EMPTY
          /\ self.pieces[get_piece(self, x)].color = normalize_color(color)
          /\ \/ Cardinality(get_single_jumps(self, get_piece(self, x))) > 0
             \/ Cardinality(get_adjacent_moves(self, get_piece(self, x))) > 0 } }

\* Board.pieces_with_valid_moves: the set of piece objects returned.
pieces_with_valid_moves(self, color) ==
  LET c == normalize_color(color)
      with_jumps ==
        { get_piece(self, coord) : coord \in
            { x \in Cells :
                /\ get_piece(self, x) # EMPTY
                /\ Cardinality(get_single_jumps(self, get_piece(self, x))) > 0
                /\ self.pieces[get_piece(self, x)].color = c } }
      with_adjacent ==
        { get_piece(self, coord) : coord \in
            { x \in Cells :
                /\ get_piece(self, x) # EMPTY
                /\ Cardinality(get_adjacent_moves(self, get_piece(self, x))) > 0
                /\ self.pieces[get_piece(self, x)].color = c } }
  IN IF Cardinality(with_jumps) = 0 THEN with_adjacent ELSE with_jumps

\* An is_game_over that also ends the game when the side to move has no move,
\* as the rules of checkers do: C10 excludes it.
is_game_over_when_blocked(self) ==
  \/ self.black_pieces_left = 0
  \/ self.red_pieces_left = 0
  \/ pieces_with_valid_moves(self, self.current_turn) = {}

is_game_over(self) == self.black_pieces_left = 0 \/ self.red_pieces_left = 0

\* A winner that names BLACK unless BLACK has no piece left: C11 excludes it.
winner_unless_black_is_out(self) ==
  IF self.black_pieces_left = 0 THEN RED ELSE BLACK

winner(self) == IF self.red_pieces_left = 0 THEN BLACK ELSE RED

-----------------------------------------------------------------------------
(* board.py: commands *)

set_board_at(self, coord, piece) ==
  [self EXCEPT !.board[coord[1]][coord[2]] = piece]

\* A capture that counts every jumped piece as a regular piece: C4 excludes it.
capture_as_regular(self, middle_piece_coords) ==
  LET middle_piece == self.pieces[get_piece(self, middle_piece_coords)]
      counted ==
        IF middle_piece.color = PIECE_BLACK
          THEN [self EXCEPT !.black_regular_left = @ - 1,
                            !.black_pieces_left = @ - 1]
          ELSE [self EXCEPT !.red_regular_left = @ - 1,
                            !.red_pieces_left = @ - 1]
  IN set_board_at(counted, middle_piece_coords, EMPTY)

\* Board.move, lines 201-213: the counters and the removal of a jumped piece.
capture(self, middle_piece_coords) ==
  LET middle_piece == self.pieces[get_piece(self, middle_piece_coords)]
      counted ==
        IF middle_piece.color = PIECE_BLACK
          THEN IF middle_piece.is_king
                 THEN [self EXCEPT !.black_kings_left = @ - 1,
                                   !.black_pieces_left = @ - 1]
                 ELSE [self EXCEPT !.black_regular_left = @ - 1,
                                   !.black_pieces_left = @ - 1]
          ELSE IF middle_piece.is_king
                 THEN [self EXCEPT !.red_kings_left = @ - 1,
                                   !.red_pieces_left = @ - 1]
                 ELSE [self EXCEPT !.red_regular_left = @ - 1,
                                   !.red_pieces_left = @ - 1]
  IN set_board_at(counted, middle_piece_coords, EMPTY)

\* A relocation that does not clear the cell the piece leaves: C7 excludes it.
relocate_leaving(self, piece, destination) ==
  LET moved == [self EXCEPT !.pieces[piece].row = destination[1],
                            !.pieces[piece].col = destination[2]]
  IN set_board_at(moved, destination, piece)

\* Board.move, lines 215-220: the piece leaves its cell and takes the new one.
relocate(self, piece, destination) ==
  LET p == self.pieces[piece]
      cleared == set_board_at(self, Coordinate(p.row, p.col), EMPTY)
      moved == [cleared EXCEPT !.pieces[piece].row = destination[1],
                               !.pieces[piece].col = destination[2]]
  IN set_board_at(moved, destination, piece)

\* A promotion that crowns the piece and leaves the counters: C5 excludes it.
promote_uncounted(self, piece) ==
  [self EXCEPT !.pieces[piece] = king(self.pieces[piece]).piece]

\* Board.move, lines 223-229: promotion and the counters of the mover's side.
promote(self, piece) ==
  LET k == king(self.pieces[piece])
      kinged == [self EXCEPT !.pieces[piece] = k.piece]
  IN IF k.ret
       THEN IF k.piece.color = PIECE_BLACK
              THEN [kinged EXCEPT !.black_regular_left = @ - 1,
                                  !.black_kings_left = @ + 1]
              ELSE [kinged EXCEPT !.red_regular_left = @ - 1,
                                  !.red_kings_left = @ + 1]
       ELSE kinged

\* A recount that forgets the kings: C1 excludes it.
recount_regular_only(self) ==
  [self EXCEPT !.black_pieces_left = self.black_regular_left,
               !.red_pieces_left = self.red_regular_left]

\* Board.move, lines 230-231.
recount(self) ==
  [self EXCEPT
     !.black_pieces_left = self.black_regular_left + self.black_kings_left,
     !.red_pieces_left = self.red_regular_left + self.red_kings_left]

\* A refusal that drops the selection, as the game loop does after it: C6
\* excludes it.
refuse_deselecting(self) ==
  [self |-> [self EXCEPT !.selected_piece = EMPTY],
   ret |-> FALSE, move_type |-> "NONE"]

\* Board.move, lines 191-192: a destination that is not valid is refused.
refuse(self) == [self |-> self, ret |-> FALSE, move_type |-> "NONE"]

\* Board.move: the Board after the call, the value returned and the move type.
\* The board after each of its steps is computed once, as the one element of
\* a set.
move(self, piece, destination) ==
  CHOOSE made \in UNION
    { IF destination \notin queried.valid_moves
        THEN { refuse(queried) }
        ELSE
          LET move_type == get_move_type(queried, piece, destination)
              p == queried.pieces[piece]
              row_diff == destination[1] - p.row
              col_diff == destination[2] - p.col
              middle_piece_coords ==
                Coordinate(p.row + (row_diff \div 2), p.col + (col_diff \div 2))
          IN { [self |-> recount(promoted), ret |-> TRUE, move_type |-> move_type] :
               promoted \in
                 { promote(relocated, piece) :
                   relocated \in
                     { relocate(jumped, piece, destination) :
                       jumped \in { IF move_type = "JUMP"
                                      THEN capture(queried, middle_piece_coords)
                                      ELSE queried } } } } :
      queried \in { [self EXCEPT !.valid_moves = get_valid_moves(self, piece)] } } : TRUE

\* A loop of perform_multiple_jumps that ends when the piece is a king, as a
\* move ends when a man is crowned: C30 excludes it.
jumps_are_over_for_kings(self, piece) ==
  self.pieces[piece].is_king \/ get_single_jumps(self, piece) = {}

\* Board.perform_multiple_jumps (src/board.py, lines 286-289):
\* single_jump_moves = self.get_single_jumps(piece), and `break` when it is
\* empty.
jumps_are_over(self, piece) == get_single_jumps(self, piece) = {}

\* One pass of the `while True` of Board.perform_multiple_jumps that does not
\* break (src/board.py, lines 291-302): the jumps are stored in _valid_moves
\* and one of them is made with move.  With one jump, pop() takes it out of
\* the set stored; with several, next(iter(...)) gives the first in the
\* iteration order of a Python set, which the source does not fix: every jump
\* of the set is a possible pick.  The outcomes of move, one per pick; the
\* board with the jumps stored is computed once, as the one element of a set.
jump_pass(self, piece) ==
  LET single_jump_moves == get_single_jumps(self, piece)
  IN UNION
       { { move(stored, piece, jump_move) : jump_move \in single_jump_moves } :
         stored \in { [self EXCEPT !.valid_moves =
                         IF Cardinality(single_jump_moves) = 1 THEN {}
                         ELSE single_jump_moves] } }

\* A switch_player that forgets reset_valid_moves: C12 excludes it.
switch_player_keeping_moves(self) ==
  [self EXCEPT !.selected_piece = EMPTY,
               !.current_turn = IF self.current_turn = BLACK THEN RED ELSE BLACK]

\* A switch_player that leaves the piece selected: C33 excludes it.
switch_player_keeping_selection(self) ==
  [self EXCEPT !.valid_moves = {},
               !.current_turn = IF self.current_turn = BLACK THEN RED ELSE BLACK]

switch_player(self) ==
  [self EXCEPT !.selected_piece = EMPTY,
               !.valid_moves = {},
               !.current_turn = IF self.current_turn = BLACK THEN RED ELSE BLACK]

select_piece(self, coord) == [self EXCEPT !.selected_piece = get_piece(self, coord)]

reset_valid_moves(self) == [self EXCEPT !.valid_moves = {}]

-----------------------------------------------------------------------------
(* ai_player.py *)

\* A result() that leaves the turn with the mover when the piece has a jump
\* left after its jump: C27 excludes it.
result_keeping_turn_in_jumps(board_obj, piece, destination) ==
  LET made == move(board_obj, piece, destination)
  IN IF made.move_type = "JUMP" /\ get_single_jumps(made.self, piece) # {}
       THEN [made.self EXCEPT !.selected_piece = EMPTY, !.valid_moves = {}]
       ELSE switch_player(made.self)

\* AI.result: the board returned.  The argument is left as it is: the move is
\* made on a deep copy of the board, with a deep copy of the piece, which takes
\* the place of the copied board's own piece on the grid.
result(board_obj, piece, destination) ==
  CHOOSE board_obj_copy \in
    { switch_player(made.self) :
      made \in { move(board_obj, piece, destination) } } : TRUE

\* AI.terminal
terminal(board_obj) == is_game_over(board_obj)

\* AI.player
player(board_obj) == board_obj.current_turn

\* AI.moves: the set returned; the call stores it in board_obj._valid_moves.
moves(board_obj, piece) == get_valid_moves(board_obj, piece)

\* An evaluate in which a king is worth a regular piece: C18 excludes it.
evaluate_kings_as_regular(board_obj) ==
  LET black_utility == board_obj.black_regular_left + board_obj.black_kings_left
      red_utility == -1 * (board_obj.red_regular_left + board_obj.red_kings_left)
  IN black_utility + red_utility

\* AI.evaluate
evaluate(board_obj) ==
  LET black_utility == board_obj.black_regular_left + (3 * board_obj.black_kings_left)
      red_utility == -1 * (board_obj.red_regular_left + (3 * board_obj.red_kings_left))
  IN black_utility + red_utility

\* A result() that makes the move on board_obj itself, without the deep copy:
\* the caller's board is the board returned.
result_call_in_place(board_obj, piece, destination) ==
  [returned |-> result(board_obj, piece, destination),
   board_obj |-> result(board_obj, piece, destination),
   shared |-> TRUE]

\* A call of AI.result as its caller sees it: the board returned, the board
\* passed as it is after the call, and whether the two are made of the same
\* objects.  deepcopy (lines 29-30) gives the returned board its own grid and
\* its own pieces.
result_call(board_obj, piece, destination) ==
  [returned |-> result(board_obj, piece, destination),
   board_obj |-> board_obj,
   shared |-> FALSE]

\* float("inf"): a value above every value of evaluate, which is at most 36.
inf == 1000

look_moves_ahead == 5

max(a, b) == IF a >= b THEN a ELSE b
min(a, b) == IF a <= b THEN a ELSE b

\* The order in which a `for` loop visits a set is not fixed by the source: it
\* is the iteration order of a Python set.  A search is made with one order,
\* by squares from the first row to the last or the other way round.
Orders == { "ascending", "descending" }

square_number(coord) == coord[1] * DIMENSIONS + coord[2]

\* The squares left and the first of them are each computed once, as the
\* one element of a set.
RECURSIVE in_order(_, _)
in_order(squares, order) ==
  CHOOSE sorted \in UNION
    { IF left = {} THEN { << >> }
      ELSE { << first >> \o in_order(left \ { first }, order) :
             first \in
               { CHOOSE x \in left : \A y \in left :
                   IF order = "ascending"
                     THEN square_number(x) <= square_number(y)
                     ELSE square_number(x) >= square_number(y) } } :
      left \in { squares } } : TRUE

\* for piece in board_obj.pieces_with_valid_moves(self.player(board_obj))
pieces_in_order(board_obj, order) ==
  CHOOSE ps \in
    { [k \in 1 .. Len(squares) |-> get_piece(board_obj, squares[k])] :
      squares \in
        { in_order({ Coordinate(board_obj.pieces[i].row, board_obj.pieces[i].col) :
                     i \in movable }, order) :
          movable \in { pieces_with_valid_moves(board_obj, player(board_obj)) } } } :
    TRUE

\* for move in self.moves(board_obj, piece)
moves_in_order(board_obj, piece, order) == in_order(moves(board_obj, piece), order)

\* best_move = None
no_move == << >>

\* The function a call makes on the boards of its moves, and the depth it
\* passes: minimax calls min_value for BLACK and max_value for RED with
\* depth = look_moves_ahead; min_value and max_value call each other with
\* depth - 1.
callee(frame) ==
  IF frame.fn = "minimax"
    THEN (IF frame.side = BLACK THEN "min_value" ELSE "max_value")
    ELSE (IF frame.fn = "min_value" THEN "max_value" ELSE "min_value")

\* A min_value and a max_value that pass their own depth on: C36 excludes
\* them.
callee_depth_kept(frame) ==
  IF frame.fn = "minimax" THEN look_moves_ahead ELSE frame.depth

callee_depth(frame) ==
  IF frame.fn = "minimax" THEN look_moves_ahead ELSE frame.depth - 1

\* The outer loop reaches the piece number frame.i: the inner loop's
\* self.moves(board_obj, piece) stores the moves in board_obj._valid_moves.  A
\* piece without a move is passed over.  The locals and the moves found are
\* each computed once, as the one element of a set.
RECURSIVE begin_piece(_, _)
begin_piece(frame, order) ==
  CHOOSE begun \in UNION
    { IF locals.i > Len(locals.ps) THEN { locals }
      ELSE UNION
        { { IF found = << >>
              THEN begin_piece([entered EXCEPT !.i = locals.i + 1], order)
              ELSE entered :
            entered \in
              { [locals EXCEPT
                   !.board_obj.valid_moves =
                     moves(locals.board_obj, locals.ps[locals.i]),
                   !.ms = found,
                   !.j = 1] } } :
          found \in { moves_in_order(locals.board_obj, locals.ps[locals.i], order) } } :
      locals \in { frame } } : TRUE

\* The locals of a call of fn that has passed its first test and starts its
\* loops: best_val, min_val or max_val is val.
enter(fn, board_obj, alpha, beta, depth, order) ==
  begin_piece(
    [fn |-> fn, board_obj |-> board_obj, side |-> player(board_obj),
     alpha |-> alpha, beta |-> beta, depth |-> depth,
     val |-> IF fn = "minimax"
               THEN (IF player(board_obj) = BLACK THEN -inf ELSE inf)
               ELSE (IF fn = "min_value" THEN inf ELSE -inf),
     best_piece |-> EMPTY, best_move |-> no_move,
     ps |-> pieces_in_order(board_obj, order), i |-> 1,
     ms |-> << >>, j |-> 1,
     cut |-> FALSE, broke |-> FALSE], order)

\* A test that leaves the loop while the bounds are still two apart: C15
\* excludes it.
prune_within_two(alpha, beta) == beta <= alpha + 2

\* if beta <= alpha: break
prune(alpha, beta) == beta <= alpha

\* The rest of a loop body once the call on the move's board has returned
\* val, up to the next move: lines 126-131 and 143-148 of minimax, lines
\* 171-184 of min_value, lines 206-219 of max_value.  `break` leaves the
\* loop over the moves of the piece, not the loop over the pieces.
take_value(frame, val, order) ==
  LET folded ==
        IF frame.fn = "minimax" /\ frame.side = BLACK THEN
          LET better == val > frame.val
              best_val == IF better THEN val ELSE frame.val
          IN [frame EXCEPT
                !.val = best_val,
                !.best_move = IF better THEN frame.ms[frame.j] ELSE @,
                !.best_piece = IF better THEN frame.ps[frame.i] ELSE @,
                !.alpha = max(frame.alpha, best_val),
                !.j = frame.j + 1]
        ELSE IF frame.fn = "minimax" THEN
          LET better == val < frame.val
              best_val == IF better THEN val ELSE frame.val
          IN [frame EXCEPT
                !.val = best_val,
                !.best_move = IF better THEN frame.ms[frame.j] ELSE @,
                !.best_piece = IF better THEN frame.ps[frame.i] ELSE @,
                !.beta = min(frame.beta, best_val),
                !.j = frame.j + 1]
        ELSE IF frame.fn = "min_value" THEN
          LET min_val == min(frame.val, val)
              beta == min(frame.beta, min_val)
          IN [frame EXCEPT
                !.val = min_val,
                !.beta = beta,
                !.cut = @ \/ (prune(frame.alpha, beta) /\ frame.j < Len(frame.ms)),
                !.broke = @ \/ prune(frame.alpha, beta),
                !.j = IF prune(frame.alpha, beta) THEN Len(frame.ms) + 1 ELSE frame.j + 1]
        ELSE
          LET max_val == max(frame.val, val)
              alpha == max(frame.alpha, max_val)
          IN [frame EXCEPT
                !.val = max_val,
                !.alpha = alpha,
                !.cut = @ \/ (prune(alpha, frame.beta) /\ frame.j < Len(frame.ms)),
                !.broke = @ \/ prune(alpha, frame.beta),
                !.j = IF prune(alpha, frame.beta) THEN Len(frame.ms) + 1 ELSE frame.j + 1]
  IN IF folded.j > Len(folded.ms)
       THEN begin_piece([folded EXCEPT !.i = folded.i + 1], order)
       ELSE folded

\* No call of min_value or max_value made in a step.
no_call ==
  [made |-> FALSE, fn |-> "none", turn |-> "NONE", side |-> "NONE", moves |-> 0,
   over |-> FALSE, evaluated |-> FALSE, after_break |-> FALSE,
   jump |-> FALSE, more_jumps |-> FALSE]

\* The call frame makes on the board `returned` of its move number j of its
\* piece number i, as the n-th call in progress: the function called, the
\* side to move on the board it is called on and on the caller's, the number
\* of moves between the root board and that board, whether its game is over,
\* whether the call returns evaluate(board_obj) at its first test, whether
\* the caller has run `break` before, whether the move is a jump and whether
\* the piece has a jump left after it.
call_made(frame, n, returned) ==
  [made |-> TRUE, fn |-> callee(frame), turn |-> player(returned),
   side |-> player(frame.board_obj), moves |-> n,
   over |-> terminal(returned),
   evaluated |-> terminal(returned) \/ callee_depth(frame) = 0,
   after_break |-> frame.broke,
   jump |-> get_move_type(frame.board_obj, frame.ps[frame.i],
                          frame.ms[frame.j]) = "JUMP",
   more_jumps |-> get_single_jumps(returned, frame.ps[frame.i]) # {}]

\* One step of a search whose calls in progress are stack, the innermost
\* last: the innermost call either makes the call on the board of its next
\* move, or has no move left and returns.  A call that returns at its first
\* test (terminal or depth 0: lines 162-163, 197-198) is made and answered in
\* the one step.  `cut` tells whether a break has skipped a move so far,
\* `call` what the call made in the step was.
\* The board of the move and the caller's locals are each computed once, as
\* the one element of a set.
search_step(stack, order) ==
  LET n == Len(stack)
      frame == stack[n]
  IN IF frame.i > Len(frame.ps) THEN
       IF n = 1
         THEN [stack |-> << >>, board_obj |-> frame.board_obj,
               returned |-> [kind |-> "pair", piece |-> frame.best_piece,
                             move |-> frame.best_move],
               best_val |-> frame.val, cut |-> frame.cut, call |-> no_call]
         ELSE CHOOSE search \in
                { [stack |-> SubSeq(stack, 1, n - 2) \o << caller >>,
                   board_obj |-> IF n = 2 THEN caller.board_obj ELSE stack[1].board_obj,
                   returned |-> [kind |-> "unset", piece |-> EMPTY, move |-> no_move],
                   best_val |-> 0,
                   cut |-> IF n = 2 THEN caller.cut ELSE stack[1].cut,
                   call |-> no_call] :
                  caller \in { take_value([stack[n - 1] EXCEPT !.cut = @ \/ frame.cut],
                                          frame.val, order) } } : TRUE
     ELSE
       CHOOSE search \in UNION
         { { [stack |-> SubSeq(stack, 1, n - 1) \o after,
              board_obj |-> IF n = 1 THEN after[1].board_obj ELSE stack[1].board_obj,
              returned |-> [kind |-> "unset", piece |-> EMPTY, move |-> no_move],
              best_val |-> 0,
              cut |-> IF n = 1 THEN after[1].cut ELSE stack[1].cut,
              call |-> made] :
             made \in { call_made(frame, n, call.returned) },
             after \in
               { IF terminal(call.returned) \/ callee_depth(frame) = 0
                   THEN << take_value([frame EXCEPT !.board_obj = call.board_obj],
                                      evaluate(call.returned), order) >>
                   ELSE << [frame EXCEPT !.board_obj = call.board_obj],
                           enter(callee(frame), call.returned, frame.alpha,
                                 frame.beta, callee_depth(frame), order) >> } } :
           call \in { result_call(frame.board_obj, frame.ps[frame.i],
                                  frame.ms[frame.j]) } } : TRUE

\* A minimax that starts its loops in the other order when the board it is
\* given has valid moves stored: C19 excludes it.
minimax_call_by_stored_moves(board_obj, order) ==
  IF terminal(board_obj)
    THEN [stack |-> << >>, board_obj |-> board_obj,
          returned |-> [kind |-> "None", piece |-> EMPTY, move |-> no_move],
          best_val |-> 0, cut |-> FALSE, call |-> no_call]
    ELSE LET other == CHOOSE o \in Orders : o # order
             root == enter("minimax", board_obj, -inf, inf, look_moves_ahead,
                           IF board_obj.valid_moves = {} THEN order ELSE other)
         IN [stack |-> << root >>, board_obj |-> root.board_obj,
             returned |-> [kind |-> "unset", piece |-> EMPTY, move |-> no_move],
             best_val |-> 0, cut |-> FALSE, call |-> no_call]

\* minimax(board_obj) from its first line to its loops: None on a board whose
\* game is over, else the search with its one call in progress.
minimax_call(board_obj, order) ==
  IF terminal(board_obj)
    THEN [stack |-> << >>, board_obj |-> board_obj,
          returned |-> [kind |-> "None", piece |-> EMPTY, move |-> no_move],
          best_val |-> 0, cut |-> FALSE, call |-> no_call]
    ELSE LET root == enter("minimax", board_obj, -inf, inf, look_moves_ahead, order)
         IN [stack |-> << root >>, board_obj |-> root.board_obj,
             returned |-> [kind |-> "unset", piece |-> EMPTY, move |-> no_move],
             best_val |-> 0, cut |-> FALSE, call |-> no_call]

-----------------------------------------------------------------------------
(* Construction *)

\* Board.__init__
NewBoard ==
  [board |-> [row \in Rows |-> [col \in Rows |-> EMPTY]],
   pieces |-> << >>,
   selected_piece |-> EMPTY,
   valid_moves |-> {},
   black_regular_left |-> 12, black_kings_left |-> 0, black_pieces_left |-> 12 + 0,
   red_regular_left |-> 12, red_kings_left |-> 0, red_pieces_left |-> 12 + 0,
   current_turn |-> BLACK]

\* Loops that place the pieces on the squares with row + col even: C13
\* excludes them.
starting_squares_even(rows) ==
  LET RECURSIVE walk(_, _)
      walk(r, c) ==
        IF r \notin rows THEN << >>
        ELSE IF c >= DIMENSIONS THEN walk(r + 1, 0)
        ELSE IF (r + c) % 2 = 0 THEN << Coordinate(r, c) >> \o walk(r, c + 1)
        ELSE walk(r, c + 1)
  IN walk(CHOOSE r \in rows : \A x \in rows : r <= x, 0)

\* The squares the loops of place_starting_pieces visit, in their order.
starting_squares(rows) ==
  LET RECURSIVE walk(_, _)
      walk(r, c) ==
        IF r \notin rows THEN << >>
        ELSE IF c >= DIMENSIONS THEN walk(r + 1, 0)
        ELSE IF (r + c) % 2 = 1 THEN << Coordinate(r, c) >> \o walk(r, c + 1)
        ELSE walk(r, c + 1)
  IN walk(CHOOSE r \in rows : \A x \in rows : r <= x, 0)

\* The grid and the heap holding the pieces ps, each on the cell it names.
with_pieces(self, ps) ==
  [self EXCEPT
     !.pieces = ps,
     !.board = [row \in Rows |-> [col \in Rows |->
                  IF \E i \in DOMAIN ps : ps[i].row = row /\ ps[i].col = col
                    THEN CHOOSE i \in DOMAIN ps : ps[i].row = row /\ ps[i].col = col
                    ELSE EMPTY]]]

place_starting_pieces(self) ==
  LET blacks == starting_squares(0 .. 2)
      reds == starting_squares((DIMENSIONS - 3) .. (DIMENSIONS - 1))
      ps == [i \in 1 .. Len(blacks) |-> Piece(blacks[i][1], blacks[i][2], PIECE_BLACK, FALSE)]
            \o
            [i \in 1 .. Len(reds) |-> Piece(reds[i][1], reds[i][2], PIECE_RED, FALSE)]
  IN with_pieces(self, ps)

StartingPosition == place_starting_pieces(NewBoard)

\* A position the game loop reaches from the starting position: the pieces on
\* the grid, the four counters Board.move has kept, and the side to move.
Played(ps, black_regular, black_kings, red_regular, red_kings, turn) ==
  [with_pieces(NewBoard, ps) EXCEPT
     !.black_regular_left = black_regular,
     !.black_kings_left = black_kings,
     !.black_pieces_left = black_regular + black_kings,
     !.red_regular_left = red_regular,
     !.red_kings_left = red_kings,
     !.red_pieces_left = red_regular + red_kings,
     !.current_turn = turn]

MidGameA ==
  Played(<< Piece(2, 3, PIECE_RED, TRUE),
            Piece(2, 5, PIECE_BLACK, FALSE),
            Piece(5, 0, PIECE_BLACK, TRUE),
            Piece(5, 4, PIECE_RED, FALSE),
            Piece(5, 6, PIECE_BLACK, TRUE) >>, 1, 2, 1, 1, RED)

MidGameB ==
  Played(<< Piece(0, 5, PIECE_BLACK, FALSE),
            Piece(2, 5, PIECE_RED, FALSE),
            Piece(2, 7, PIECE_BLACK, FALSE),
            Piece(5, 4, PIECE_BLACK, TRUE),
            Piece(5, 6, PIECE_BLACK, FALSE) >>, 3, 1, 1, 0, RED)

MidGameC ==
  Played(<< Piece(3, 6, PIECE_RED, TRUE),
            Piece(4, 1, PIECE_BLACK, FALSE),
            Piece(4, 7, PIECE_RED, FALSE),
            Piece(6, 1, PIECE_RED, FALSE),
            Piece(7, 2, PIECE_RED, FALSE) >>, 1, 0, 3, 1, BLACK)

MidGameD ==
  Played(<< Piece(2, 5, PIECE_BLACK, FALSE),
            Piece(3, 0, PIECE_BLACK, FALSE),
            Piece(3, 2, PIECE_BLACK, FALSE),
            Piece(6, 1, PIECE_RED, FALSE),
            Piece(7, 6, PIECE_BLACK, TRUE) >>, 3, 1, 1, 0, RED)

\* The two pieces of the documented capture scenario, left after 102 calls of
\* Board.move from the starting position (and reset_valid_moves).
ScenarioA ==
  Played(<< Piece(2, 3, PIECE_BLACK, FALSE),
            Piece(3, 4, PIECE_RED, FALSE) >>, 1, 0, 1, 0, BLACK)

Positions ==
  { StartingPosition, MidGameA, MidGameB, MidGameC, MidGameD, ScenarioA }

-----------------------------------------------------------------------------
(* The live Board *)

Live ==
  [board |-> board, pieces |-> pieces,
   selected_piece |-> selected_piece, valid_moves |-> valid_moves,
   black_regular_left |-> black_regular_left,
   black_kings_left |-> black_kings_left,
   black_pieces_left |-> black_pieces_left,
   red_regular_left |-> red_regular_left,
   red_kings_left |-> red_kings_left,
   red_pieces_left |-> red_pieces_left,
   current_turn |-> current_turn]

Becomes(self) ==
  /\ board' = self.board
  /\ pieces' = self.pieces
  /\ selected_piece' = self.selected_piece
  /\ valid_moves' = self.valid_moves
  /\ black_regular_left' = self.black_regular_left
  /\ black_kings_left' = self.black_kings_left
  /\ black_pieces_left' = self.black_pieces_left
  /\ red_regular_left' = self.red_regular_left
  /\ red_kings_left' = self.red_kings_left
  /\ red_pieces_left' = self.red_pieces_left
  /\ current_turn' = self.current_turn

\* The piece objects a caller can take from the grid.
OnBoard == { board[coord[1]][coord[2]] : coord \in Cells } \ { EMPTY }

\* The last call: its name, the piece it moved (EMPTY when it moved none), the
\* move type and the value returned.
Called(op, piece, move_type, ret) ==
  [op |-> op, piece |-> piece, move_type |-> move_type, ret |-> ret]

\* No call of AI.minimax made yet; order is the enumeration order of the
\* searches to come.
NoSearch(order) ==
  [stack |-> << >>, order |-> order, calls |-> 0,
   returned |-> [kind |-> "unset", piece |-> EMPTY, move |-> no_move],
   best_val |-> 0, cut |-> FALSE, call |-> no_call, given |-> NewBoard,
   before |-> [calls |-> 0, given |-> NewBoard,
               returned |-> [kind |-> "unset", piece |-> EMPTY, move |-> no_move]]]

\* No call of AI.result made yet.
NoCopy ==
  [held |-> FALSE, board_obj |-> NewBoard, shared |-> FALSE,
   piece |-> EMPTY, destination |-> no_move]

\* No call of Board.perform_multiple_jumps made yet.
NotJumping ==
  [pc |-> "idle", piece |-> EMPTY, jumps |-> 0, opposing |-> 0]

\* No game loop running.  In a game, pc is the place of main() in its loop:
\* "loop" outside the AI's jumps, "ai_jumps" in the `while True` of the AI
\* step, "crashed" after an exception nothing catches, "over" after the
\* loop's break.  taken is the number of results of ai.minimax put to use;
\* mover tells who made the last move, ai_piece, ai_first and ai_moves are the
\* piece, the type of the first move and the number of moves of the AI step,
\* switches its calls of switch_player; continuing is the human's piece
\* whose jump has left it a jump, continued is continuing as it was before
\* the last move.
NoGame ==
  [pc |-> "none", taken |-> 0, mover |-> "none",
   ai_piece |-> EMPTY, ai_first |-> "NONE", ai_moves |-> 0, switches |-> 0,
   continuing |-> EMPTY, continued |-> EMPTY]

Init ==
  /\ \E position \in Positions :
       /\ board = position.board
       /\ pieces = position.pieces
       /\ selected_piece = position.selected_piece
       /\ valid_moves = position.valid_moves
       /\ black_regular_left = position.black_regular_left
       /\ black_kings_left = position.black_kings_left
       /\ black_pieces_left = position.black_pieces_left
       /\ red_regular_left = position.red_regular_left
       /\ red_kings_left = position.red_kings_left
       /\ red_pieces_left = position.red_pieces_left
       /\ current_turn = position.current_turn
  /\ last = Called("none", EMPTY, "NONE", FALSE)
  /\ prev = Live
  /\ steps = 0
  /\ ai = NoSearch("ascending")
  /\ copied = NoCopy
  /\ jumping = NotJumping
  /\ game = NoGame

\* game_board.move(piece, destination), accepted or rejected.
Move(piece, destination) ==
  LET r == move(Live, piece, destination)
  IN /\ Becomes(r.self)
     /\ last' = Called("move", IF r.ret THEN piece ELSE EMPTY, r.move_type, r.ret)
     /\ prev' = Live
     /\ steps' = steps + 1
     /\ UNCHANGED << ai, copied, jumping, game >>

SwitchPlayer ==
  /\ Becomes(switch_player(Live))
  /\ last' = Called("switch_player", EMPTY, "NONE", FALSE)
  /\ prev' = Live
  /\ steps' = steps + 1
  /\ UNCHANGED << ai, copied, jumping, game >>

SelectPiece(coord) ==
  /\ Becomes(select_piece(Live, coord))
  /\ last' = Called("select_piece", EMPTY, "NONE", FALSE)
  /\ prev' = Live
  /\ steps' = steps + 1
  /\ UNCHANGED << ai, copied, jumping, game >>

GetValidMoves(piece) ==
  /\ Becomes([Live EXCEPT !.valid_moves = get_valid_moves(Live, piece)])
  /\ last' = Called("get_valid_moves", EMPTY, "NONE", FALSE)
  /\ prev' = Live
  /\ steps' = steps + 1
  /\ UNCHANGED << ai, copied, jumping, game >>

ResetValidMoves ==
  /\ Becomes(reset_valid_moves(Live))
  /\ last' = Called("reset_valid_moves", EMPTY, "NONE", FALSE)
  /\ prev' = Live
  /\ steps' = steps + 1
  /\ UNCHANGED << ai, copied, jumping, game >>

\* The pieces the game loop selects and asks the valid moves of: those of the
\* side to move that have a move (main.py, lines 104-110; ai_player.py, lines
\* 118-119).
Movable == pieces_with_valid_moves(Live, current_turn)

\* The destinations tried for a piece: the squares one and two steps away on
\* its four diagonals, on the grid or off it.  They hold every square a move
\* can be accepted for, and squares it is rejected for: backwards for a
\* non-king, occupied, a jump over nothing or over the mover's own side.
Nearby(piece) ==
  { Coordinate(pieces[piece].row + n * dr, pieces[piece].col + n * dc) :
      n \in { 1, 2 }, dr \in { -1, 1 }, dc \in { -1, 1 } }

Next ==
  \/ /\ steps < MaxSteps
     /\ \E piece \in OnBoard : \E destination \in Nearby(piece) :
          Move(piece, destination)
  \/ /\ steps < MaxSteps
     /\ SwitchPlayer
  \/ /\ steps < MaxSteps
     /\ \E piece \in Movable : SelectPiece(Coordinate(pieces[piece].row, pieces[piece].col))
  \/ /\ steps < MaxSteps
     /\ \E piece \in Movable : GetValidMoves(piece)
  \/ /\ steps < MaxSteps
     /\ ResetValidMoves

Spec == Init /\ [][Next]_vars

-----------------------------------------------------------------------------
(* The search engine at work *)

\* Positions the game loop of main.py reaches with AI.minimax playing RED:
\* EndGameA after 35 moves, RED to move with one piece left that can jump;
\* EndGameB after 56 moves, BLACK to move with its king; EndGameC after 48
\* moves of a third game, BLACK to move, and EndGameD one move later.
EndGameA ==
  Played(<< Piece(0, 1, PIECE_BLACK, FALSE),
            Piece(0, 5, PIECE_BLACK, FALSE),
            Piece(0, 7, PIECE_BLACK, FALSE),
            Piece(1, 0, PIECE_BLACK, FALSE),
            Piece(2, 5, PIECE_BLACK, FALSE),
            Piece(3, 4, PIECE_BLACK, TRUE),
            Piece(4, 3, PIECE_BLACK, FALSE),
            Piece(5, 4, PIECE_RED, FALSE) >>, 6, 1, 1, 0, RED)

EndGameB ==
  Played(<< Piece(0, 1, PIECE_RED, TRUE),
            Piece(2, 7, PIECE_RED, FALSE),
            Piece(5, 0, PIECE_BLACK, TRUE),
            Piece(5, 2, PIECE_RED, TRUE),
            Piece(7, 4, PIECE_RED, FALSE),
            Piece(7, 6, PIECE_RED, FALSE) >>, 0, 1, 3, 2, BLACK)

EndGameC ==
  Played(<< Piece(0, 5, PIECE_BLACK, FALSE),
            Piece(2, 7, PIECE_RED, FALSE),
            Piece(3, 2, PIECE_RED, FALSE),
            Piece(4, 5, PIECE_RED, FALSE),
            Piece(6, 3, PIECE_RED, FALSE) >>, 1, 0, 4, 0, BLACK)

EndGameD ==
  Played(<< Piece(1, 4, PIECE_BLACK, FALSE),
            Piece(2, 7, PIECE_RED, FALSE),
            Piece(3, 2, PIECE_RED, FALSE),
            Piece(4, 5, PIECE_RED, FALSE),
            Piece(6, 3, PIECE_RED, FALSE) >>, 1, 0, 4, 0, RED)

\* ScenarioA once its capture is made: the game is over.
GameOverA == move(ScenarioA, 1, Coordinate(4, 5)).self

\* The boards AI.minimax is called on.
AIPositions ==
  { MidGameB, MidGameC, MidGameD, ScenarioA, GameOverA,
    EndGameA, EndGameB, EndGameC, EndGameD }

InitAI ==
  /\ \E position \in AIPositions :
       /\ board = position.board
       /\ pieces = position.pieces
       /\ selected_piece = position.selected_piece
       /\ valid_moves = position.valid_moves
       /\ black_regular_left = position.black_regular_left
       /\ black_kings_left = position.black_kings_left
       /\ black_pieces_left = position.black_pieces_left
       /\ red_regular_left = position.red_regular_left
       /\ red_kings_left = position.red_kings_left
       /\ red_pieces_left = position.red_pieces_left
       /\ current_turn = position.current_turn
  /\ last = Called("none", EMPTY, "NONE", FALSE)
  /\ prev = Live
  /\ steps = 0
  /\ \E order \in Orders : ai = NoSearch(order)
  /\ copied = NoCopy
  /\ jumping = NotJumping
  /\ game = NoGame

\* What a step of the search leaves: game_board is the board of the
\* outermost call, so what the search does to that board is done to the live
\* Board.
Searching(search) ==
  /\ Becomes(search.board_obj)
  /\ ai' = [ai EXCEPT !.stack = search.stack,
                      !.returned = search.returned,
                      !.best_val = search.best_val,
                      !.cut = search.cut,
                      !.call = search.call]

\* ai.minimax(game_board) is called (main.py, line 67) and runs to its first
\* call of min_value or max_value, or returns None.
AICall ==
  /\ ai.stack = << >>
  /\ \E search \in { minimax_call(Live, ai.order) } :
       /\ Becomes(search.board_obj)
       /\ ai' = [ai EXCEPT
                   !.stack = search.stack,
                   !.returned = search.returned,
                   !.best_val = 0,
                   !.cut = FALSE,
                   !.call = no_call,
                   !.calls = ai.calls + 1,
                   !.given = Live,
                   !.before = [calls |-> ai.calls, given |-> ai.given,
                               returned |-> ai.returned]]
  /\ last' = Called("minimax", EMPTY, "NONE", FALSE)
  /\ prev' = Live
  /\ steps' = steps + 1
  /\ UNCHANGED << copied, jumping, game >>

\* The call of AI.minimax in progress goes on to its next call of min_value
\* or max_value, or to a return.
AIStep ==
  /\ ai.stack # << >>
  /\ \E search \in { search_step(ai.stack, ai.order) } : Searching(search)
  /\ UNCHANGED << last, prev, steps, copied, jumping, game >>

NextAI ==
  \/ /\ steps < MaxCalls
     /\ AICall
  \/ AIStep
  \/ /\ steps < MaxCalls
     /\ ai.stack = << >>
     /\ ResetValidMoves

SpecAI == InitAI /\ [][NextAI]_vars

\* A call of AI.minimax runs on: statement follows statement until the call
\* returns.
SpecSearch == InitAI /\ [][NextAI]_vars /\ WF_vars(AIStep)

\* AI.minimax has returned.
Returned == ai.calls > 0 /\ ai.stack = << >>

-----------------------------------------------------------------------------
(* AI.result and the board it returns *)

\* The board AI.result returned, whether it is made of the objects of the
\* board passed, and the arguments of the call.
Copy(call, piece, destination) ==
  [held |-> TRUE, board_obj |-> call.returned, shared |-> call.shared,
   piece |-> piece, destination |-> destination]

\* ai.result(game_board, piece, destination)
AIResult(piece, destination) ==
  LET call == result_call(Live, piece, destination)
  IN /\ Becomes(call.board_obj)
     /\ copied' = Copy(call, piece, destination)
     /\ last' = Called("result", piece, get_move_type(Live, piece, destination), FALSE)
     /\ prev' = Live
     /\ steps' = steps + 1
     /\ UNCHANGED << ai, jumping, game >>

\* move(piece, destination) on the board AI.result returned.  A board made
\* of the objects of game_board is game_board.
MoveOnCopy(piece, destination) ==
  LET r == move(copied.board_obj, piece, destination)
  IN /\ copied.held
     /\ copied' = [copied EXCEPT !.board_obj = r.self]
     /\ IF copied.shared THEN Becomes(r.self) ELSE Becomes(Live)
     /\ last' = Called("move_on_copy", IF r.ret THEN piece ELSE EMPTY, r.move_type, r.ret)
     /\ prev' = Live
     /\ steps' = steps + 1
     /\ UNCHANGED << ai, jumping, game >>

\* The pieces of the board returned that can move, and the squares each can
\* move to.
MovableOnCopy ==
  pieces_with_valid_moves(copied.board_obj, copied.board_obj.current_turn)

NextCopy ==
  \/ /\ steps < MaxSteps
     /\ \E piece \in Movable : \E destination \in Nearby(piece) :
          AIResult(piece, destination)
  \/ /\ steps < MaxSteps
     /\ \E piece \in MovableOnCopy :
          \E destination \in get_valid_moves(copied.board_obj, piece) :
            MoveOnCopy(piece, destination)

SpecCopy == Init /\ [][NextCopy]_vars

-----------------------------------------------------------------------------
(* Board.perform_multiple_jumps *)

\* Positions of games played from the starting position in which a piece has
\* a jump that leaves it a further jump, or two jumps to pick from.
\* JumpsA: the black king on (5,6) has a jump to (3,4) and from there to (1,2).
JumpsA ==
  Played(<< Piece(0, 1, PIECE_RED, TRUE),
            Piece(2, 3, PIECE_RED, TRUE),
            Piece(4, 5, PIECE_RED, FALSE),
            Piece(5, 6, PIECE_BLACK, TRUE),
            Piece(7, 2, PIECE_RED, FALSE) >>, 0, 1, 2, 2, RED)

\* JumpsB: the black man on (5,2) has three jumps in a row; the first
\* crowns it on (7,4).
JumpsB ==
  Played(<< Piece(4, 1, PIECE_BLACK, FALSE),
            Piece(4, 5, PIECE_RED, TRUE),
            Piece(4, 7, PIECE_RED, FALSE),
            Piece(5, 2, PIECE_BLACK, FALSE),
            Piece(6, 3, PIECE_RED, FALSE),
            Piece(6, 5, PIECE_RED, FALSE),
            Piece(6, 7, PIECE_RED, FALSE),
            Piece(7, 2, PIECE_RED, FALSE),
            Piece(7, 6, PIECE_RED, FALSE) >>, 2, 0, 6, 1, BLACK)

\* JumpsC: the black king on (5,6) has the jumps to (7,4) and to (3,4).
JumpsC ==
  Played(<< Piece(0, 5, PIECE_RED, TRUE),
            Piece(4, 5, PIECE_RED, TRUE),
            Piece(5, 6, PIECE_BLACK, TRUE),
            Piece(6, 5, PIECE_RED, FALSE),
            Piece(6, 7, PIECE_RED, FALSE) >>, 0, 1, 2, 2, RED)

\* JumpsD: the red king on (2,3) has the jumps to (4,5) and to (4,1), and a
\* further jump after one of them.
JumpsD ==
  Played(<< Piece(0, 5, PIECE_RED, TRUE),
            Piece(2, 3, PIECE_RED, TRUE),
            Piece(3, 2, PIECE_BLACK, FALSE),
            Piece(3, 4, PIECE_BLACK, FALSE),
            Piece(5, 2, PIECE_BLACK, FALSE),
            Piece(5, 6, PIECE_RED, FALSE),
            Piece(6, 5, PIECE_RED, FALSE),
            Piece(6, 7, PIECE_RED, FALSE),
            Piece(7, 4, PIECE_RED, FALSE),
            Piece(7, 6, PIECE_RED, FALSE) >>, 3, 0, 5, 2, BLACK)

JumpPositions ==
  { MidGameA, MidGameB, MidGameC, MidGameD, ScenarioA,
    JumpsA, JumpsB, JumpsC, JumpsD }

InitJumps ==
  /\ \E position \in JumpPositions :
       /\ board = position.board
       /\ pieces = position.pieces
       /\ selected_piece = position.selected_piece
       /\ valid_moves = position.valid_moves
       /\ black_regular_left = position.black_regular_left
       /\ black_kings_left = position.black_kings_left
       /\ black_pieces_left = position.black_pieces_left
       /\ red_regular_left = position.red_regular_left
       /\ red_kings_left = position.red_kings_left
       /\ red_pieces_left = position.red_pieces_left
       /\ current_turn = position.current_turn
  /\ last = Called("none", EMPTY, "NONE", FALSE)
  /\ prev = Live
  /\ steps = 0
  /\ ai = NoSearch("ascending")
  /\ copied = NoCopy
  /\ jumping = NotJumping
  /\ game = NoGame

\* The pieces of the other colour on the grid.
opposing_pieces(piece) ==
  { other \in OnBoard : pieces[other].color # pieces[piece].color }

\* game_board.perform_multiple_jumps(piece) is called and reaches its loop.
PerformMultipleJumps(piece) ==
  /\ jumping.pc = "idle"
  /\ jumping' = [pc |-> "loop", piece |-> piece, jumps |-> 0,
                 opposing |-> Cardinality(opposing_pieces(piece))]
  /\ last' = Called("perform_multiple_jumps", piece, "NONE", FALSE)
  /\ prev' = Live
  /\ steps' = steps + 1
  /\ UNCHANGED << board, pieces, selected_piece, valid_moves,
                  black_regular_left, black_kings_left, black_pieces_left,
                  red_regular_left, red_kings_left, red_pieces_left,
                  current_turn, ai, copied, game >>

\* One pass of the loop: it jumps, or it breaks and the call returns.
JumpPass ==
  /\ jumping.pc = "loop"
  /\ IF jumps_are_over(Live, jumping.piece)
       THEN /\ jumping' = [jumping EXCEPT !.pc = "idle"]
            /\ last' = Called("perform_multiple_jumps", jumping.piece, "NONE", TRUE)
            /\ UNCHANGED << board, pieces, selected_piece, valid_moves,
                            black_regular_left, black_kings_left, black_pieces_left,
                            red_regular_left, red_kings_left, red_pieces_left,
                            current_turn, prev >>
       ELSE \E r \in jump_pass(Live, jumping.piece) :
              /\ Becomes(r.self)
              /\ jumping' = [jumping EXCEPT !.jumps = @ + 1]
              /\ last' = Called("move", IF r.ret THEN jumping.piece ELSE EMPTY,
                                r.move_type, r.ret)
              /\ prev' = Live
  /\ UNCHANGED << steps, ai, copied, game >>

NextJumps ==
  \/ /\ steps < MaxSteps
     /\ jumping.pc = "idle"
     /\ \E piece \in OnBoard : \E destination \in Nearby(piece) :
          Move(piece, destination)
  \/ /\ steps < MaxSteps
     /\ \E piece \in OnBoard : PerformMultipleJumps(piece)
  \/ JumpPass

\* A call that has reached its loop goes on: nothing else runs in between.
SpecJumps == InitJumps /\ [][NextJumps]_vars /\ WF_vars(JumpPass)

-----------------------------------------------------------------------------
(* main.py: the game loop *)

PLAYER_COLOR == BLACK
AI_COLOR == RED

\* The handler of a click (main.py, lines 93-127): the Board after it, what
\* it did, and for a move the piece, the type and what Board.move returned.
\* select_piece is given the piece clicked, whose row and col it reads.
click(self, mouse_board_coords) ==
  LET mouse_piece == get_piece(self, mouse_board_coords)
      player_piece_color == IF PLAYER_COLOR = BLACK THEN PIECE_BLACK ELSE PIECE_RED
  IN IF /\ mouse_piece # EMPTY
        /\ self.current_turn = PLAYER_COLOR
        /\ self.pieces[mouse_piece].color = player_piece_color
        /\ mouse_piece \in pieces_with_valid_moves(self, player_piece_color)
       THEN
         LET selected == select_piece(self, Coordinate(self.pieces[mouse_piece].row,
                                                       self.pieces[mouse_piece].col))
         IN [self |-> [selected EXCEPT !.valid_moves =
                         get_valid_moves(selected, selected.selected_piece)],
             did |-> "select", piece |-> mouse_piece,
             move_type |-> "NONE", ret |-> FALSE]
     ELSE IF self.selected_piece # EMPTY /\ mouse_piece = EMPTY
       THEN
         CHOOSE clicked \in
           { IF made.ret
               THEN IF move_type = "JUMP"
                      THEN LET possible_jump_moves ==
                                 get_single_jumps(made.self, self.selected_piece)
                           IN [self |-> IF possible_jump_moves # {}
                                          THEN [made.self EXCEPT
                                                  !.valid_moves = possible_jump_moves]
                                          ELSE switch_player(made.self),
                               did |-> "move", piece |-> self.selected_piece,
                               move_type |-> move_type, ret |-> TRUE]
                      ELSE [self |-> switch_player(made.self),
                            did |-> "move", piece |-> self.selected_piece,
                            move_type |-> move_type, ret |-> TRUE]
               ELSE [self |-> [made.self EXCEPT !.selected_piece = EMPTY],
                     did |-> "move", piece |-> self.selected_piece,
                     move_type |-> move_type, ret |-> FALSE] :
             move_type \in { get_move_type(self, self.selected_piece, mouse_board_coords) },
             made \in { move(self, self.selected_piece, mouse_board_coords) } } : TRUE
     ELSE [self |-> self, did |-> "nothing", piece |-> EMPTY,
           move_type |-> "NONE", ret |-> FALSE]

\* A loop of the AI step that asks for no further jump: C22 excludes it.
ai_jumps_left_never(self, ai_piece) == {}

\* possible_jump_moves = game_board.get_single_jumps(ai_piece) (line 74)
ai_jumps_left(self, ai_piece) == get_single_jumps(self, ai_piece)

\* Positions of games played from the starting position.
\* GameA: after 22 moves, BLACK to move.  The man on (3,2) has the jump to
\* (5,4) and from there the jump to (7,2); once it has left (3,2) and taken
\* the man on (4,3), the man on (2,5) has the jump to (4,3).
GameA ==
  Played(<< Piece(0, 1, PIECE_BLACK, FALSE),
            Piece(0, 3, PIECE_BLACK, FALSE),
            Piece(0, 7, PIECE_BLACK, FALSE),
            Piece(1, 2, PIECE_BLACK, FALSE),
            Piece(1, 6, PIECE_BLACK, FALSE),
            Piece(2, 1, PIECE_BLACK, FALSE),
            Piece(2, 5, PIECE_BLACK, FALSE),
            Piece(2, 7, PIECE_BLACK, FALSE),
            Piece(3, 0, PIECE_RED, FALSE),
            Piece(3, 2, PIECE_BLACK, FALSE),
            Piece(3, 4, PIECE_RED, FALSE),
            Piece(4, 1, PIECE_RED, FALSE),
            Piece(4, 3, PIECE_RED, FALSE),
            Piece(5, 0, PIECE_RED, FALSE),
            Piece(6, 3, PIECE_RED, FALSE),
            Piece(6, 5, PIECE_RED, FALSE),
            Piece(6, 7, PIECE_RED, FALSE),
            Piece(7, 4, PIECE_RED, FALSE),
            Piece(7, 6, PIECE_RED, FALSE) >>, 9, 0, 10, 0, BLACK)

\* GameB: RED to move; the red man on (5,0) has the jump to (3,2) and from
\* there the jump to (1,0).
GameB ==
  Played(<< Piece(0, 7, PIECE_RED, TRUE),
            Piece(2, 1, PIECE_BLACK, FALSE),
            Piece(4, 1, PIECE_BLACK, FALSE),
            Piece(4, 3, PIECE_RED, FALSE),
            Piece(4, 5, PIECE_RED, FALSE),
            Piece(5, 0, PIECE_RED, FALSE) >>, 2, 0, 3, 1, RED)

GamePositions ==
  { GameA, GameB, EndGameA, EndGameB, EndGameC, EndGameD, ScenarioA }

InitGame ==
  /\ \E position \in GamePositions :
       /\ board = position.board
       /\ pieces = position.pieces
       /\ selected_piece = position.selected_piece
       /\ valid_moves = position.valid_moves
       /\ black_regular_left = position.black_regular_left
       /\ black_kings_left = position.black_kings_left
       /\ black_pieces_left = position.black_pieces_left
       /\ red_regular_left = position.red_regular_left
       /\ red_kings_left = position.red_kings_left
       /\ red_pieces_left = position.red_pieces_left
       /\ current_turn = position.current_turn
  /\ last = Called("none", EMPTY, "NONE", FALSE)
  /\ prev = Live
  /\ steps = 0
  /\ ai = NoSearch("ascending")
  /\ copied = NoCopy
  /\ jumping = NotJumping
  /\ game = [NoGame EXCEPT !.pc = "loop"]

\* No AI step is in progress: no search, and no result of a search waiting.
BetweenSteps ==
  /\ game.pc = "loop"
  /\ ai.stack = << >>
  /\ ai.calls = game.taken

\* Lines 59-63: the loop ends on a finished game.
GameOver ==
  /\ BetweenSteps
  /\ is_game_over(Live)
  /\ game' = [game EXCEPT !.pc = "over"]
  /\ UNCHANGED << board, pieces, selected_piece, valid_moves,
                  black_regular_left, black_kings_left, black_pieces_left,
                  red_regular_left, red_kings_left, red_pieces_left,
                  current_turn, last, prev, steps, ai, copied, jumping >>

\* An AI step that does not wait for the test of lines 58-59: C34 excludes
\* it.
AITurn_on_any_board ==
  /\ BetweenSteps
  /\ current_turn = AI_COLOR
  /\ AICall

\* Lines 66-67: on the AI's turn the loop calls ai.minimax(game_board).
AITurn ==
  /\ BetweenSteps
  /\ ~is_game_over(Live)
  /\ current_turn = AI_COLOR
  /\ AICall

\* The search goes on.
AIThinks ==
  /\ game.pc = "loop"
  /\ AIStep

\* Lines 67-72: the result of minimax is unpacked, get_move_type and move are
\* called with it.  None cannot be unpacked, and get_move_type(None, None)
\* reads None.row: either way an exception ends main().  An ADJACENT move is
\* followed by switch_player, a JUMP by the loop of AIJump.
AIMove ==
  /\ game.pc = "loop"
  /\ ai.stack = << >>
  /\ ai.calls > game.taken
  /\ IF ai.returned.kind # "pair" \/ ai.returned.piece = EMPTY
       THEN /\ game' = [game EXCEPT !.pc = "crashed", !.taken = ai.calls,
                                    !.ai_piece = EMPTY, !.ai_first = "NONE",
                                    !.ai_moves = 0, !.switches = 0]
            /\ UNCHANGED << board, pieces, selected_piece, valid_moves,
                            black_regular_left, black_kings_left, black_pieces_left,
                            red_regular_left, red_kings_left, red_pieces_left,
                            current_turn, last, prev >>
       ELSE \E ai_piece \in { ai.returned.piece } :
            \E ai_destination \in { ai.returned.move } :
            \E move_type \in { get_move_type(Live, ai_piece, ai_destination) } :
            \E made \in { move(Live, ai_piece, ai_destination) } :
              /\ Becomes(IF made.ret /\ move_type = "ADJACENT"
                           THEN switch_player(made.self) ELSE made.self)
              /\ game' = [game EXCEPT
                            !.pc = IF made.ret /\ move_type = "JUMP"
                                     THEN "ai_jumps" ELSE "loop",
                            !.taken = ai.calls,
                            !.mover = "ai",
                            !.ai_piece = ai_piece,
                            !.ai_first = move_type,
                            !.ai_moves = IF made.ret THEN 1 ELSE 0,
                            !.switches = IF made.ret /\ move_type = "ADJACENT"
                                           THEN 1 ELSE 0,
                            !.continued = game.continuing]
              /\ last' = Called("move", IF made.ret THEN ai_piece ELSE EMPTY,
                                made.move_type, made.ret)
              /\ prev' = Live
  /\ UNCHANGED << steps, ai, copied, jumping >>

\* Lines 73-79: one pass of the `while True` of the AI step.  pop() takes
\* any of the jumps.
AIJump ==
  /\ game.pc = "ai_jumps"
  /\ \E possible_jump_moves \in { ai_jumps_left(Live, game.ai_piece) } :
       IF possible_jump_moves # {}
         THEN \E destination \in possible_jump_moves :
              \E made \in { move(Live, game.ai_piece, destination) } :
                /\ Becomes(made.self)
                /\ game' = [game EXCEPT !.ai_moves = @ + 1]
                /\ last' = Called("move", IF made.ret THEN game.ai_piece ELSE EMPTY,
                                  made.move_type, made.ret)
         ELSE /\ Becomes(switch_player(Live))
              /\ game' = [game EXCEPT !.pc = "loop", !.switches = @ + 1]
              /\ last' = Called("switch_player", EMPTY, "NONE", FALSE)
  /\ prev' = Live
  /\ UNCHANGED << steps, ai, copied, jumping >>

\* Lines 93-127: a click on a square of the board.
Click(mouse_board_coords) ==
  /\ BetweenSteps
  /\ \E clicked \in { click(Live, mouse_board_coords) } :
       /\ clicked.did # "nothing"
       /\ Becomes(clicked.self)
       /\ last' = Called(IF clicked.did = "move" THEN "move" ELSE "select_piece",
                         IF clicked.did = "move" /\ ~clicked.ret
                           THEN EMPTY ELSE clicked.piece,
                         clicked.move_type, clicked.ret)
       /\ game' = IF clicked.did = "move" /\ clicked.ret
                    THEN [game EXCEPT
                            !.mover = "human",
                            !.continued = game.continuing,
                            !.continuing =
                              IF clicked.self.current_turn = PLAYER_COLOR
                                THEN clicked.piece ELSE EMPTY]
                    ELSE game
  /\ prev' = Live
  /\ steps' = steps + 1
  /\ UNCHANGED << ai, copied, jumping >>

NextGame ==
  \/ GameOver
  \/ /\ steps < MaxEvents
     /\ AITurn
  \/ AIThinks
  \/ AIMove
  \/ AIJump
  \/ /\ steps < MaxEvents
     /\ \E mouse_board_coords \in Cells : Click(mouse_board_coords)

SpecGame == InitGame /\ [][NextGame]_vars

\* The loop runs on: iteration follows iteration, and the AI step runs to its
\* end.
SpecGameRuns ==
  InitGame /\ [][NextGame]_vars /\ WF_vars(GameOver) /\ WF_vars(AIJump)

-----------------------------------------------------------------------------
(* Vocabulary of the properties *)

\* The piece objects on the grid of a Board.
OnBoardOf(self) ==
  { self.board[coord[1]][coord[2]] : coord \in Cells } \ { EMPTY }

\* What stands on the grid of a Board, as a set of pieces.
Contents(self) == { self.pieces[i] : i \in OnBoardOf(self) }

\* A piece may go to rows of larger numbers (dr > 0) or smaller ones (dr < 0).
CanGo(p, dr) ==
  \/ p.is_king
  \/ (p.color = PIECE_BLACK /\ dr > 0)
  \/ (p.color = PIECE_RED /\ dr < 0)

\* The empty squares one diagonal step from a piece, in a direction allowed.
AdjacentSquares(self, piece) ==
  LET p == self.pieces[piece]
      ways == { w \in { -1, 1 } \X { -1, 1 } :
                  /\ CanGo(p, w[1])
                  /\ << p.row + w[1], p.col + w[2] >> \in Cells
                  /\ self.board[p.row + w[1]][p.col + w[2]] = EMPTY }
  IN { << p.row + w[1], p.col + w[2] >> : w \in ways }

\* The empty squares two diagonal steps from a piece, in a direction allowed,
\* with a piece of the other colour on the square in between.
JumpSquares(self, piece) ==
  LET p == self.pieces[piece]
      ways == { w \in { -1, 1 } \X { -1, 1 } :
                  /\ CanGo(p, w[1])
                  /\ << p.row + 2 * w[1], p.col + 2 * w[2] >> \in Cells
                  /\ self.board[p.row + 2 * w[1]][p.col + 2 * w[2]] = EMPTY
                  /\ self.board[p.row + w[1]][p.col + w[2]] # EMPTY
                  /\ self.pieces[self.board[p.row + w[1]][p.col + w[2]]].color
                       # p.color }
  IN { << p.row + 2 * w[1], p.col + 2 * w[2] >> : w \in ways }

Moved == last.op = "move" /\ last.ret
Jumped == Moved /\ last.move_type = "JUMP"
Refused == last.op = "move" /\ ~last.ret

\* The moves open at the root of a search on a board: the pairs of a piece
\* of the side to move that has a move and one of its moves.
root_moves(board_obj) ==
  UNION { { << piece, destination >> :
              destination \in get_valid_moves(board_obj, piece) } :
            piece \in pieces_with_valid_moves(board_obj, player(board_obj)) }

\* The root moves in the order the loops of minimax reach them: the pieces
\* in order, and for each piece its moves in order.
root_sequence(board_obj, order) ==
  LET ps == pieces_in_order(board_obj, order)
      RECURSIVE from(_)
      from(i) ==
        IF i > Len(ps) THEN << >>
        ELSE LET ms == moves_in_order(board_obj, ps[i], order)
             IN [j \in 1 .. Len(ms) |-> << ps[i], ms[j] >>] \o from(i + 1)
  IN from(1)

\* The value of a board searched to a depth with no pruning: min_value and
\* max_value without their alpha, beta and break; the maximum over the moves
\* when BLACK is to move, the minimum when RED is.
RECURSIVE unpruned_value(_, _)
unpruned_value(board_obj, depth) ==
  IF terminal(board_obj) \/ depth = 0 THEN evaluate(board_obj)
  ELSE LET values == { unpruned_value(result(board_obj, pair[1], pair[2]), depth - 1) :
                         pair \in root_moves(board_obj) }
       IN IF player(board_obj) = BLACK
            THEN CHOOSE v \in values \cup { -inf } : \A w \in values : v >= w
            ELSE CHOOSE v \in values \cup { inf } : \A w \in values : v <= w

\* The unpruned value of a root move of the board minimax was given.
root_value(pair) ==
  unpruned_value(result(ai.given, pair[1], pair[2]), look_moves_ahead)

\* minimax has returned a piece and a destination.
Selected == Returned /\ ai.returned.kind = "pair" /\ ai.returned.piece # EMPTY

\* Two boards hold the same game: the same grid of the same pieces, each
\* with the same row, col, color and is_king, the same six counters, the same
\* side to move and the same selected piece.  _valid_moves is not compared.
SameGame(a, b) ==
  /\ a.board = b.board
  /\ a.pieces = b.pieces
  /\ a.black_regular_left = b.black_regular_left
  /\ a.black_kings_left = b.black_kings_left
  /\ a.black_pieces_left = b.black_pieces_left
  /\ a.red_regular_left = b.red_regular_left
  /\ a.red_kings_left = b.red_kings_left
  /\ a.red_pieces_left = b.red_pieces_left
  /\ a.current_turn = b.current_turn
  /\ a.selected_piece = b.selected_piece

-----------------------------------------------------------------------------
(* Properties *)

\* C1: in every state reached by calls of Board.move, accepted or refused, and
\* of switch_player, each side's *_pieces_left is the sum of its *_regular_left
\* and its *_kings_left.
C1_PiecesLeftIsSum ==
  /\ black_pieces_left = black_regular_left + black_kings_left
  /\ red_pieces_left = red_regular_left + red_kings_left

\* A jump that also crowned the jumping piece: both kinds of counter moved.
C1_Witness ==
  /\ Jumped
  /\ ~prev.pieces[last.piece].is_king /\ pieces[last.piece].is_king
  /\ black_pieces_left + red_pieces_left < prev.black_pieces_left + prev.red_pieces_left

\* C2: pieces_with_valid_moves(color) obeys mandatory capture: when some piece
\* of the colour can jump it returns exactly the pieces of the colour that can
\* jump, and otherwise exactly those that have an adjacent move.
C2_MandatoryCapture ==
  \A color \in { PIECE_BLACK, PIECE_RED, BLACK, RED } :
    LET c == IF color \in { PIECE_BLACK, BLACK } THEN PIECE_BLACK ELSE PIECE_RED
        mine == { i \in OnBoard : pieces[i].color = c }
        jumpers == { i \in mine : JumpSquares(Live, i) # {} }
        sliders == { i \in mine : AdjacentSquares(Live, i) # {} }
    IN pieces_with_valid_moves(Live, color) =
         IF jumpers # {} THEN jumpers ELSE sliders

\* One piece of a colour can jump while another of its colour can only slide.
C2_Witness ==
  \E i \in OnBoard, j \in OnBoard :
    /\ pieces[i].color = pieces[j].color
    /\ JumpSquares(Live, i) # {}
    /\ JumpSquares(Live, j) = {} /\ AdjacentSquares(Live, j) # {}
    /\ j \notin pieces_with_valid_moves(Live, pieces[j].color)

\* The board of the capture scenario: a BLACK regular piece on (2,3), a RED
\* regular piece on (3,4) and nothing else.
OnlyTwoPieces ==
  Contents(Live) = { Piece(2, 3, PIECE_BLACK, FALSE), Piece(3, 4, PIECE_RED, FALSE) }

\* C3: get_valid_moves(piece) is get_single_jumps(piece) when that set is not
\* empty and the piece's adjacent moves otherwise; on the board with only a
\* BLACK regular piece on (2,3) and a RED regular piece on (3,4) it is {(4,5)}
\* for the BLACK piece.
C3_ValidMoves ==
  /\ \A piece \in OnBoard :
       get_valid_moves(Live, piece) =
         IF get_single_jumps(Live, piece) # {}
           THEN get_single_jumps(Live, piece)
           ELSE AdjacentSquares(Live, piece)
  /\ OnlyTwoPieces => get_valid_moves(Live, board[2][3]) = { << 4, 5 >> }

\* get_valid_moves has been called for the BLACK piece of the scenario.
C3_Witness ==
  /\ OnlyTwoPieces
  /\ last.op = "get_valid_moves"
  /\ valid_moves = { << 4, 5 >> }

\* C4: a successful JUMP removes exactly one piece from the grid, the piece of
\* the other colour on the midpoint; the other side's *_pieces_left drops by
\* one, through *_kings_left for a captured king and *_regular_left otherwise,
\* and the mover's *_pieces_left is unchanged, also when the jump crowns it.
C4_JumpCapturesOne ==
  Jumped =>
    LET before == prev.pieces[last.piece]
        after == pieces[last.piece]
        mid == << (before.row + after.row) \div 2, (before.col + after.col) \div 2 >>
        victim == prev.board[mid[1]][mid[2]]
        captured == prev.pieces[victim]
    IN /\ abs(after.row - before.row) = 2 /\ abs(after.col - before.col) = 2
       /\ victim # EMPTY
       /\ captured.color # before.color
       /\ OnBoard = OnBoardOf(prev) \ { victim }
       /\ board[mid[1]][mid[2]] = EMPTY
       /\ IF captured.color = PIECE_RED
            THEN /\ red_pieces_left = prev.red_pieces_left - 1
                 /\ black_pieces_left = prev.black_pieces_left
                 /\ IF captured.is_king
                      THEN /\ red_kings_left = prev.red_kings_left - 1
                           /\ red_regular_left = prev.red_regular_left
                      ELSE /\ red_regular_left = prev.red_regular_left - 1
                           /\ red_kings_left = prev.red_kings_left
            ELSE /\ black_pieces_left = prev.black_pieces_left - 1
                 /\ red_pieces_left = prev.red_pieces_left
                 /\ IF captured.is_king
                      THEN /\ black_kings_left = prev.black_kings_left - 1
                           /\ black_regular_left = prev.black_regular_left
                      ELSE /\ black_regular_left = prev.black_regular_left - 1
                           /\ black_kings_left = prev.black_kings_left

\* A king has been captured by a jump.
C4_Witness ==
  /\ Jumped
  /\ \E victim \in OnBoardOf(prev) \ OnBoard : prev.pieces[victim].is_king

\* C5: when move returns True for a non-king BLACK piece that lands on row 7,
\* or a non-king RED piece that lands on row 0, the piece is a king right
\* after, its side's *_kings_left is one more and *_regular_left one less; a
\* piece that is a king already changes neither counter by landing there.
C5_Promotion ==
  Moved =>
    LET before == prev.pieces[last.piece]
        after == pieces[last.piece]
    IN /\ (before.color = PIECE_BLACK /\ after.row = 7) =>
            /\ after.is_king
            /\ IF before.is_king
                 THEN /\ black_kings_left = prev.black_kings_left
                      /\ black_regular_left = prev.black_regular_left
                 ELSE /\ black_kings_left = prev.black_kings_left + 1
                      /\ black_regular_left = prev.black_regular_left - 1
       /\ (before.color = PIECE_RED /\ after.row = 0) =>
            /\ after.is_king
            /\ IF before.is_king
                 THEN /\ red_kings_left = prev.red_kings_left
                      /\ red_regular_left = prev.red_regular_left
                 ELSE /\ red_kings_left = prev.red_kings_left + 1
                      /\ red_regular_left = prev.red_regular_left - 1

\* A non-king RED piece has reached row 0 by an adjacent move.
C5_Witness ==
  /\ Moved /\ last.move_type = "ADJACENT"
  /\ prev.pieces[last.piece].color = PIECE_RED
  /\ ~prev.pieces[last.piece].is_king
  /\ pieces[last.piece].row = 0

\* C6: move called with a destination that is not in get_valid_moves(piece)
\* returns False and leaves the grid, every piece, the six counters,
\* current_turn and selected_piece as they were (so a call that returned True
\* took the piece to a square that was in get_valid_moves(piece)).
C6_RefusedMoveChangesNothing ==
  /\ Refused =>
       /\ board = prev.board
       /\ pieces = prev.pieces
       /\ black_regular_left = prev.black_regular_left
       /\ black_kings_left = prev.black_kings_left
       /\ black_pieces_left = prev.black_pieces_left
       /\ red_regular_left = prev.red_regular_left
       /\ red_kings_left = prev.red_kings_left
       /\ red_pieces_left = prev.red_pieces_left
       /\ current_turn = prev.current_turn
       /\ selected_piece = prev.selected_piece
  /\ Moved =>
       << pieces[last.piece].row, pieces[last.piece].col >>
         \in get_valid_moves(prev, last.piece)

\* A move has been refused while a piece was selected; the call did run, as
\* the valid moves it computed replaced the former ones.
C6_Witness ==
  /\ Refused
  /\ selected_piece # EMPTY
  /\ valid_moves # prev.valid_moves

\* C7: every grid cell (r, c) that is not empty holds a piece whose row is r
\* and whose col is c, and no piece object is in two cells.
C7_CellsMatchPieces ==
  /\ \A coord \in Cells :
       LET piece == board[coord[1]][coord[2]]
       IN piece # EMPTY =>
            pieces[piece].row = coord[1] /\ pieces[piece].col = coord[2]
  /\ \A piece \in OnBoard :
       Cardinality({ coord \in Cells : board[coord[1]][coord[2]] = piece }) = 1

\* In a game from the starting position, a move has been made by a piece that
\* was not on its side's front row: the second move of the game.
C7_Witness ==
  /\ Moved
  /\ Len(pieces) = 24
  /\ prev.pieces[last.piece].row \notin { 2, 5 }

\* C8: no call makes a king a non-king: a piece that was a king before a call
\* on the Board is a king after it, and every king of a board is a king of the
\* board AI.result returns for any move of the side to move.
C8_KingsStayKings ==
  /\ \A i \in DOMAIN prev.pieces : prev.pieces[i].is_king => pieces[i].is_king
  /\ \A piece \in pieces_with_valid_moves(Live, current_turn) :
       \A destination \in get_valid_moves(Live, piece) :
         \A i \in DOMAIN pieces :
           pieces[i].is_king =>
             result(Live, piece, destination).pieces[i].is_king

\* A piece crowned on row 7 has moved away from that row.
C8_Witness ==
  /\ Moved
  /\ prev.pieces[last.piece].is_king
  /\ prev.pieces[last.piece].color = PIECE_BLACK
  /\ prev.pieces[last.piece].row = 7
  /\ pieces[last.piece].row = 6

\* C9: get_single_jumps(piece) is the set of squares two diagonal steps away
\* in a direction allowed to the piece that are on the board and empty and
\* have a piece of the other colour on the midpoint; it has at most 2 squares
\* for a non-king and at most 4 for a king.
C9_SingleJumps ==
  \A piece \in OnBoard :
    /\ get_single_jumps(Live, piece) = JumpSquares(Live, piece)
    /\ Cardinality(get_single_jumps(Live, piece)) <=
         (IF pieces[piece].is_king THEN 4 ELSE 2)

\* A king can jump backwards, and a piece has a piece of its own colour in
\* front of an empty square, which is no jump.
C9_Witness ==
  /\ \E piece \in OnBoard :
       /\ pieces[piece].is_king /\ pieces[piece].color = PIECE_BLACK
       /\ \E d \in get_single_jumps(Live, piece) : d[1] < pieces[piece].row
  /\ \E piece \in OnBoard, other \in OnBoard :
       LET p == pieces[piece]
           q == pieces[other]
           d == << 2 * q.row - p.row, 2 * q.col - p.col >>
       IN /\ p.color = q.color
          /\ abs(q.row - p.row) = 1 /\ abs(q.col - p.col) = 1
          /\ CanGo(p, q.row - p.row)
          /\ d \in Cells /\ board[d[1]][d[2]] = EMPTY
          /\ d \notin get_single_jumps(Live, piece)

\* The side to move has pieces on the grid, as has the other side, and none of
\* its pieces has a move.
NoMoveLeft ==
  /\ \E i \in OnBoard : pieces[i].color = normalize_color(current_turn)
  /\ \E i \in OnBoard : pieces[i].color # normalize_color(current_turn)
  /\ \A i \in OnBoard :
       pieces[i].color = normalize_color(current_turn) =>
         JumpSquares(Live, i) = {} /\ AdjacentSquares(Live, i) = {}

\* C10: is_game_over() is true exactly when black_pieces_left or
\* red_pieces_left is 0; a state in which the side to move has pieces but no
\* legal move is not reported as game over.
C10_GameOver ==
  /\ is_game_over(Live) <=> (black_pieces_left = 0 \/ red_pieces_left = 0)
  /\ NoMoveLeft => ~is_game_over(Live)

\* A move has left the side to move blocked, and the game is not over.
C10_Witness ==
  /\ NoMoveLeft
  /\ Moved
  /\ ~is_game_over(Live)

\* C11: when captures have brought red_pieces_left to 0 the game is over and
\* winner() is BLACK; when black_pieces_left is 0 winner() is RED; and winner()
\* is RED in every state with red_pieces_left # 0, over or not.
C11_Winner ==
  /\ red_pieces_left = 0 => is_game_over(Live) /\ winner(Live) = BLACK
  /\ (black_pieces_left = 0 /\ red_pieces_left # 0) =>
       is_game_over(Live) /\ winner(Live) = RED
  /\ red_pieces_left # 0 => winner(Live) = RED

\* A jump has captured the last RED piece.
C11_Witness ==
  /\ Jumped
  /\ prev.red_pieces_left = 1 /\ red_pieces_left = 0
  /\ is_game_over(Live) /\ winner(Live) = BLACK

\* C12: switch_player() flips current_turn, leaves selected_piece EMPTY and
\* valid_moves empty, and leaves the grid, every piece and the six counters as
\* they were; two calls in a row give back the current_turn they started from.
C12_SwitchPlayer ==
  /\ last.op = "switch_player" =>
       /\ current_turn = (IF prev.current_turn = BLACK THEN RED ELSE BLACK)
       /\ current_turn # prev.current_turn
       /\ selected_piece = EMPTY
       /\ valid_moves = {}
       /\ board = prev.board
       /\ pieces = prev.pieces
       /\ black_regular_left = prev.black_regular_left
       /\ black_kings_left = prev.black_kings_left
       /\ black_pieces_left = prev.black_pieces_left
       /\ red_regular_left = prev.red_regular_left
       /\ red_kings_left = prev.red_kings_left
       /\ red_pieces_left = prev.red_pieces_left
  /\ switch_player(switch_player(Live)).current_turn = current_turn

\* switch_player has been called with valid moves stored, on RED's turn.
C12_Witness ==
  /\ last.op = "switch_player"
  /\ prev.valid_moves # {}
  /\ prev.current_turn = RED /\ current_turn = BLACK

\* C13: after Board() and place_starting_pieces() the grid holds 12 BLACK
\* non-kings on rows 0-2 and 12 RED non-kings on rows 5-7, all on squares with
\* row + col odd; the counters are 12/0/12 for each side, BLACK is to move, the
\* game is not over, and pieces_with_valid_moves(BLACK) is the 4 BLACK pieces
\* of row 2.
C13_StartingPosition ==
  Live = StartingPosition =>
    LET blacks == { p \in Contents(Live) : p.color = PIECE_BLACK }
        reds == { p \in Contents(Live) : p.color = PIECE_RED }
    IN /\ Cardinality(OnBoard) = 24
       /\ Cardinality(blacks) = 12 /\ Cardinality(reds) = 12
       /\ \A p \in blacks : p.row \in 0 .. 2 /\ ~p.is_king
       /\ \A p \in reds : p.row \in 5 .. 7 /\ ~p.is_king
       /\ \A p \in Contents(Live) : (p.row + p.col) % 2 = 1
       /\ black_regular_left = 12 /\ black_kings_left = 0 /\ black_pieces_left = 12
       /\ red_regular_left = 12 /\ red_kings_left = 0 /\ red_pieces_left = 12
       /\ current_turn = BLACK
       /\ ~is_game_over(Live)
       /\ pieces_with_valid_moves(Live, BLACK) =
            { i \in OnBoard : pieces[i].color = PIECE_BLACK /\ pieces[i].row = 2 }
       /\ Cardinality(pieces_with_valid_moves(Live, BLACK)) = 4

\* The board as main() has set it up, before any call.
C13_Witness ==
  /\ steps = 0
  /\ Live = StartingPosition
  /\ Len(pieces) = 24

\* C18: evaluate(board) is (black_regular_left + 3 * black_kings_left) -
\* (red_regular_left + 3 * red_kings_left); the grid, the side to move, the
\* selection and the stored moves do not change it; it lies in -36 .. 36.
C18_Evaluate ==
  /\ evaluate(Live) = (black_regular_left + 3 * black_kings_left)
                        - (red_regular_left + 3 * red_kings_left)
  /\ evaluate(Live) \in -36 .. 36
  /\ \A turn \in { BLACK, RED } :
       evaluate([Live EXCEPT !.board = NewBoard.board,
                             !.current_turn = turn,
                             !.selected_piece = EMPTY,
                             !.valid_moves = {}]) = evaluate(Live)

\* A move has left the two sides with different numbers of kings.
C18_Witness ==
  /\ Moved
  /\ black_kings_left # red_kings_left
  /\ evaluate(Live) # black_pieces_left - red_pieces_left

\* C14: on a board whose game is not over and whose side to move has a piece
\* with a move, AI.minimax returns a pair (piece, destination) with the piece
\* among pieces_with_valid_moves(current_turn) of that board and the
\* destination among get_valid_moves(piece); it returns None only on a board
\* whose game is over.
C14_MinimaxReturnsALegalMove ==
  Returned =>
    /\ ( /\ ~is_game_over(ai.given)
         /\ pieces_with_valid_moves(ai.given, ai.given.current_turn) # {} )
       => /\ ai.returned.kind = "pair"
          /\ ai.returned.piece \in
               pieces_with_valid_moves(ai.given, ai.given.current_turn)
          /\ ai.returned.move \in get_valid_moves(ai.given, ai.returned.piece)
    /\ ai.returned.kind = "None" => is_game_over(ai.given)

\* C15: the value minimax has found with its pruning for the move it returns
\* is the value an unpruned search of the same depth gives that move, and it
\* is the maximum (BLACK to move) or the minimum (RED to move) of the unpruned
\* values of all the root moves.
C15_PruningKeepsTheValue ==
  (Returned /\ ai.returned.kind = "pair") =>
    /\ Selected =>
         ai.best_val = root_value(<< ai.returned.piece, ai.returned.move >>)
    /\ \A pair \in root_moves(ai.given) :
         IF player(ai.given) = BLACK
           THEN root_value(pair) <= ai.best_val
           ELSE root_value(pair) >= ai.best_val

C15_Witness ==
  /\ Selected
  /\ ai.cut
  /\ ai.best_val = root_value(<< ai.returned.piece, ai.returned.move >>)
  /\ \E pair \in root_moves(ai.given) : root_value(pair) # ai.best_val

\* C16: AI.minimax does not change the game of the board it is given: while
\* it searches and when it has returned, every cell of the grid, every
\* piece's row, col and is_king, the six counters, current_turn and
\* selected_piece of that board are what they were before the call.
C16_MinimaxLeavesTheBoard ==
  last.op = "minimax" => SameGame(Live, ai.given)

\* A search that has made moves on copies, found a move and left other
\* valid moves stored on the board than it found there.
C16_Witness ==
  /\ last.op = "minimax"
  /\ Selected
  /\ ai.best_val # evaluate(Live)
  /\ valid_moves # ai.given.valid_moves
  /\ SameGame(Live, ai.given)

\* C17 as stated: AI.result leaves the board and the piece passed as they
\* were and returns a board that is the board passed with the move made by
\* Board.move; a move made later on the board returned changes nothing in
\* the board passed.
C17_ResultIsTheMoveOnACopy ==
  /\ last.op = "result" =>
       /\ Live = prev
       /\ copied.board_obj = move(prev, copied.piece, copied.destination).self
  /\ last.op = "move_on_copy" => Live = prev

\* C17, amended: the board returned is the board passed with the move made
\* by Board.move and the turn then passed by switch_player: the grid, the
\* pieces and the six counters Board.move leaves, the other side to move, no
\* piece selected and no valid move stored.
C17_ResultIsTheMoveAndTheTurn ==
  /\ last.op = "result" =>
       LET moved == move(prev, copied.piece, copied.destination).self
       IN /\ Live = prev
          /\ ~copied.shared
          /\ SameGame([copied.board_obj EXCEPT !.current_turn = prev.current_turn,
                                               !.selected_piece = EMPTY],
                      [moved EXCEPT !.selected_piece = EMPTY])
          /\ copied.board_obj.current_turn # prev.current_turn
          /\ copied.board_obj.current_turn \in { BLACK, RED }
          /\ copied.board_obj.selected_piece = EMPTY
          /\ copied.board_obj.valid_moves = {}
  /\ last.op = "move_on_copy" => Live = prev

\* A capture made on the board AI.result returned, after a move that
\* Board.move accepted.
C17_Witness ==
  /\ last.op = "move_on_copy"
  /\ last.move_type = "JUMP"
  /\ last.ret
  /\ copied.board_obj.board # board
  /\ copied.board_obj.black_pieces_left + copied.board_obj.red_pieces_left
       < black_pieces_left + red_pieces_left
  /\ Live = prev

C20_FirstBestMoveIsReturned ==
  (Returned /\ ai.returned.kind = "pair" /\ root_moves(ai.given) # {}) =>
    LET seq == root_sequence(ai.given, ai.order)
        values == [k \in 1 .. Len(seq) |-> root_value(seq[k])]
        best == CHOOSE v \in { values[k] : k \in 1 .. Len(seq) } :
                  \A k \in 1 .. Len(seq) :
                    IF player(ai.given) = BLACK THEN values[k] <= v ELSE values[k] >= v
        first == CHOOSE k \in 1 .. Len(seq) :
                   /\ values[k] = best
                   /\ \A j \in 1 .. (k - 1) : values[j] # best
    IN << ai.returned.piece, ai.returned.move >> = seq[first]

\* C28: a successful Board.move changes at most three grid cells: the source
\* cell becomes empty, the destination cell holds the moved piece and, for a
\* JUMP only, the midpoint cell becomes empty; every other cell, every other
\* piece, current_turn and selected_piece are as before, and an ADJACENT move
\* that does not promote leaves the six counters as they were.
C28_MoveChangesThreeCells ==
  Moved =>
    LET before == prev.pieces[last.piece]
        after == pieces[last.piece]
        source == Coordinate(before.row, before.col)
        destination == Coordinate(after.row, after.col)
        mid == Coordinate((before.row + after.row) \div 2,
                          (before.col + after.col) \div 2)
        touched == IF last.move_type = "JUMP"
                     THEN { source, destination, mid }
                     ELSE { source, destination }
    IN /\ source # destination
       /\ board[source[1]][source[2]] = EMPTY
       /\ board[destination[1]][destination[2]] = last.piece
       /\ last.move_type = "JUMP" => board[mid[1]][mid[2]] = EMPTY
       /\ \A coord \in Cells \ touched :
            board[coord[1]][coord[2]] = prev.board[coord[1]][coord[2]]
       /\ \A piece \in DOMAIN pieces \ { last.piece } :
            pieces[piece] = prev.pieces[piece]
       /\ DOMAIN pieces = DOMAIN prev.pieces
       /\ after.color = before.color
       /\ current_turn = prev.current_turn
       /\ selected_piece = prev.selected_piece
       /\ (last.move_type = "ADJACENT" /\ after.is_king = before.is_king) =>
            /\ black_pieces_left = prev.black_pieces_left
            /\ black_regular_left = prev.black_regular_left
            /\ black_kings_left = prev.black_kings_left
            /\ red_pieces_left = prev.red_pieces_left
            /\ red_regular_left = prev.red_regular_left
            /\ red_kings_left = prev.red_kings_left

\* A piece that was selected has made an ADJACENT move that did not crown it,
\* on a board where other pieces stand.
C28_Witness ==
  /\ Moved
  /\ last.move_type = "ADJACENT"
  /\ pieces[last.piece].is_king = prev.pieces[last.piece].is_king
  /\ selected_piece # EMPTY
  /\ Cardinality(OnBoard) > 1

\* C21: on the human's turn, after a jump of piece P that leaves P a jump,
\* the turn stays with the human and the next move made on the board is a
\* jump of P: no other piece is selected and moved before.
C21_SamePieceGoesOn ==
  /\ game.continuing # EMPTY => current_turn = PLAYER_COLOR
  /\ (Moved /\ game.mover = "human" /\ game.continued # EMPTY) =>
       /\ last.piece = game.continued
       /\ last.move_type = "JUMP"

\* C22: when the move the AI has chosen is a jump, the AI step jumps on with
\* that piece while get_single_jumps of it is not empty, and calls
\* switch_player once, when the set is empty; when the move is adjacent,
\* switch_player is called once right after it.
C22_AIJumpsOn ==
  /\ game.pc = "ai_jumps" =>
       /\ game.ai_first = "JUMP"
       /\ game.switches = 0
       /\ current_turn = AI_COLOR
       /\ Moved /\ last.piece = game.ai_piece /\ last.move_type = "JUMP"
  /\ (game.pc = "loop" /\ game.mover = "ai" /\ game.ai_moves > 0) =>
       /\ game.switches = 1
       /\ game.ai_first = "ADJACENT" => game.ai_moves = 1
       /\ game.ai_first = "JUMP" => get_single_jumps(Live, game.ai_piece) = {}
       /\ game.ai_first \in { "ADJACENT", "JUMP" }

\* The AI step has ended after two jumps of the piece minimax chose.
C22_Witness ==
  /\ game.pc = "loop" /\ game.mover = "ai"
  /\ game.ai_first = "JUMP"
  /\ game.ai_moves = 2
  /\ game.switches = 1

\* C23: in the game loop, a move made while some piece of the side to move
\* has a capture is a JUMP.
C23_CaptureIsMandatory ==
  (game.pc # "none" /\ Moved) =>
    ((\E piece \in OnBoardOf(prev) :
        /\ prev.pieces[piece].color = normalize_color(prev.current_turn)
        /\ get_single_jumps(prev, piece) # {})
       => last.move_type = "JUMP")

\* The human has made a jump on a board where a BLACK piece had an adjacent
\* move to offer.
C23_Witness ==
  /\ game.pc = "loop" /\ Moved
  /\ game.mover = "human"
  /\ last.move_type = "JUMP"
  /\ \E piece \in OnBoardOf(prev) :
       /\ prev.pieces[piece].color = PIECE_BLACK
       /\ get_adjacent_moves(prev, piece) # {}

\* C24: on RED's turn in a game that is not over the AI step ends without
\* failing: it has made at least one RED move and leaves BLACK to move.
C24_AIStepCompletes ==
  /\ game.pc # "crashed"
  /\ (game.pc = "loop" /\ game.mover = "ai" /\ last.op # "select_piece") =>
       /\ game.ai_moves >= 1
       /\ current_turn = PLAYER_COLOR

\* C25: in max_value and min_value, once beta <= alpha has held after a
\* child, no further child of that call is expanded, for any remaining piece:
\* no call is made by a caller that has run its `break`.
C25_BreakStopsTheNode ==
  ai.call.made => ~ai.call.after_break

\* C26: every board on which evaluate is called during minimax(board) is at
\* most look_moves_ahead = 5 moves from the root board, and every evaluated
\* board whose game is not over is exactly 5 moves from it.
C26_FivePlies ==
  ai.call.evaluated =>
    /\ ai.call.moves <= look_moves_ahead
    /\ ~ai.call.over => ai.call.moves = look_moves_ahead

\* C27: AI.result returns a board whose current_turn is the opposite of its
\* input's, also after a jump that leaves the piece a further jump, so
\* max_value is only called on boards with BLACK to move and min_value only
\* on boards with RED to move, and so are the calls in progress.
C27_SidesAlternate ==
  /\ ai.call.made =>
       /\ ai.call.turn # ai.call.side
       /\ ai.call.fn = "max_value" => ai.call.turn = BLACK
       /\ ai.call.fn = "min_value" => ai.call.turn = RED
  /\ \A n \in 1 .. Len(ai.stack) :
       /\ ai.stack[n].fn = "max_value" => player(ai.stack[n].board_obj) = BLACK
       /\ ai.stack[n].fn = "min_value" => player(ai.stack[n].board_obj) = RED

\* max_value or min_value has been called on the board of a jump that leaves
\* the piece a further jump.
C27_Witness ==
  /\ ai.call.made
  /\ ai.call.jump
  /\ ai.call.more_jumps

\* C29: after minimax(board) has returned, the valid_moves of the board it
\* was given is the set it was before the call.
C29_MinimaxLeavesValidMoves ==
  Returned => valid_moves = ai.given.valid_moves

\* C30: Board.perform_multiple_jumps(piece) terminates on every board; every
\* move it makes is a JUMP of the given piece that takes exactly one piece of
\* the other colour off the grid; when it returns get_single_jumps(piece) is
\* empty; it makes no more jumps than there were pieces of the other colour
\* on the board at the call.
C30_JumpsThenStops ==
  /\ [](/\ jumping.jumps <= jumping.opposing
        /\ (jumping.pc = "loop" /\ jumping.jumps > 0) =>
             /\ last.op = "move" /\ last.ret
             /\ last.piece = jumping.piece
             /\ last.move_type = "JUMP"
             /\ OnBoard \subseteq OnBoardOf(prev)
             /\ \E victim \in OnBoardOf(prev) :
                  /\ OnBoardOf(prev) \ OnBoard = { victim }
                  /\ prev.pieces[victim].color # pieces[jumping.piece].color
             /\ Cardinality(opposing_pieces(jumping.piece)) + jumping.jumps
                  = jumping.opposing
        /\ (last.op = "perform_multiple_jumps" /\ last.ret) =>
             get_single_jumps(Live, last.piece) = {})
  /\ (jumping.pc = "loop") ~> (jumping.pc = "idle")

\* A call has returned after three jumps, the first of which crowned the
\* piece.
C30_Witness ==
  /\ last.op = "perform_multiple_jumps" /\ last.ret
  /\ jumping.jumps = 3
  /\ pieces[last.piece].is_king
  /\ black_kings_left = 1

-----------------------------------------------------------------------------
\* The counters of a Board agree with its grid, and none is negative.
CountersAgree(self) ==
  LET on_grid(color, is_king) ==
        Cardinality({ piece \in OnBoardOf(self) :
                        /\ self.pieces[piece].color = color
                        /\ self.pieces[piece].is_king = is_king })
  IN /\ self.black_regular_left = on_grid(PIECE_BLACK, FALSE)
     /\ self.black_kings_left = on_grid(PIECE_BLACK, TRUE)
     /\ self.red_regular_left = on_grid(PIECE_RED, FALSE)
     /\ self.red_kings_left = on_grid(PIECE_RED, TRUE)
     /\ \A counter \in { self.black_regular_left, self.black_kings_left,
                         self.black_pieces_left, self.red_regular_left,
                         self.red_kings_left, self.red_pieces_left } :
          counter >= 0

\* The boards AI.result has made for the calls of the search in progress.
Searched == { ai.stack[k].board_obj : k \in 1..Len(ai.stack) }

\* C31: in every state of the game, after the moves of the human and of the
\* AI and on every board AI.result makes during the search, the four
\* counters of regular pieces and kings equal the numbers of non-king BLACK,
\* king BLACK, non-king RED and king RED pieces on the grid, and none of the
\* six counters is negative.
C31_CountersAgreeWithGrid ==
  /\ CountersAgree(Live)
  /\ \A board_obj \in Searched : CountersAgree(board_obj)

\* The AI and then the human have moved, and the search now under way has
\* reached a board on which, since the live board, a piece has been taken and
\* a man crowned.
C31_Witness ==
  /\ game.mover = "human" /\ game.ai_moves > 0
  /\ \E board_obj \in Searched :
       /\ board_obj.black_kings_left + board_obj.red_kings_left
            > black_kings_left + red_kings_left
       /\ board_obj.black_pieces_left + board_obj.red_pieces_left
            < black_pieces_left + red_pieces_left

-----------------------------------------------------------------------------
\* The innermost call in progress is a call of min_value or max_value that
\* has left its loops and returns its min_val or max_val (lines 185, 220).
ReturnsValue ==
  /\ Len(ai.stack) > 1
  /\ ai.stack[Len(ai.stack)].i > Len(ai.stack[Len(ai.stack)].ps)

\* C32: every value min_value and max_value return is the evaluate() value
\* of a board of the subtree searched, an integer in -36..36, also at a node
\* whose game is not over, whose depth is above 0 and whose side to move has
\* no legal move.
C32_ValuesAreEvaluations ==
  ReturnsValue => ai.stack[Len(ai.stack)].val \in -36..36

-----------------------------------------------------------------------------
\* C36: AI.minimax terminates on every board: every call of min_value or
\* max_value made by min_value or max_value has the depth of its caller less
\* one, a call in its loops has a depth above 0 and a board whose game is not
\* over, every call loops over at most twelve pieces and at most four moves
\* of a piece, and a call of minimax that has begun returns.
C36_MinimaxTerminates ==
  /\ [](\A k \in 1..Len(ai.stack) :
          /\ ai.stack[k].depth \in 1..look_moves_ahead
          /\ ~terminal(ai.stack[k].board_obj)
          /\ k = 2 => ai.stack[k].depth = look_moves_ahead
          /\ k > 2 => ai.stack[k].depth = ai.stack[k - 1].depth - 1
          /\ Len(ai.stack[k].ps) <= 12
          /\ Len(ai.stack[k].ms) <= 4)
  /\ (ai.stack # << >>) ~> Returned

\* The search is six calls deep: minimax, and calls of depth 5, 4, 3, 2 and 1,
\* the innermost of which has more than one piece to try.
C36_Witness ==
  /\ Len(ai.stack) = look_moves_ahead + 1
  /\ ai.stack[Len(ai.stack)].depth = 1
  /\ Len(ai.stack[Len(ai.stack)].ps) > 1

-----------------------------------------------------------------------------
\* The colour of the pieces of the side whose turn it is.
colour_to_move(self) ==
  IF self.current_turn = BLACK THEN PIECE_BLACK ELSE PIECE_RED

\* C33: in the game loop every move made on the live board is the move of a
\* piece of the colour whose turn it was: the human's clicks move a BLACK
\* piece and only while the turn is BLACK's, however many clicks follow one
\* another, and the AI moves a RED piece and only while the turn is RED's.
C33_MoverHasTheTurn ==
  Moved =>
    /\ prev.pieces[last.piece].color = colour_to_move(prev)
    /\ game.mover = "human" =>
         prev.current_turn = PLAYER_COLOR /\ pieces[last.piece].color = PIECE_BLACK
    /\ game.mover = "ai" =>
         prev.current_turn = AI_COLOR /\ pieces[last.piece].color = PIECE_RED

\* After a move of the AI the human has made a move that ended the turn, and
\* the piece moved has a further move on the board: a click on that square
\* finds the turn with RED and no piece selected.
C33_Witness ==
  /\ Moved
  /\ game.mover = "human" /\ game.ai_moves > 0
  /\ current_turn = AI_COLOR
  /\ selected_piece = EMPTY
  /\ get_valid_moves(Live, last.piece) # {}
  /\ \A mouse_board_coords \in Cells :
       click(Live, mouse_board_coords).did = "nothing"

-----------------------------------------------------------------------------
\* C34: in the game loop, once is_game_over() is true no move is made on the
\* board any more and AI.minimax is not called on it, neither in progress
\* nor with a result waiting; is_game_over() stays true; the loop reaches its
\* break, and reaches it on a finished game only.
C34_GameOverIsFinal ==
  /\ [](/\ is_game_over(Live) => ai.stack = << >> /\ ai.calls = game.taken
        /\ game.pc = "over" => is_game_over(Live))
  /\ [][is_game_over(Live) =>
          /\ black_pieces_left' = 0 \/ red_pieces_left' = 0
          /\ board' = board /\ pieces' = pieces
          /\ ai' = ai]_vars
  /\ is_game_over(Live) ~> (game.pc = "over")

\* The loop has ended on a game the human finished by taking the last RED
\* piece: the turn had passed to the AI.
C34_Witness ==
  /\ game.pc = "over"
  /\ game.mover = "human"
  /\ red_pieces_left = 0
  /\ current_turn = AI_COLOR

-----------------------------------------------------------------------------
\* C35: in every state reached from the starting position by moves, no BLACK
\* piece that is not a king stands on row 7 and no RED piece that is not a
\* king stands on row 0.
C35_NoManOnThePromotionRow ==
  \A piece \in OnBoard :
    /\ (pieces[piece].color = PIECE_BLACK /\ pieces[piece].row = 7) =>
         pieces[piece].is_king
    /\ (pieces[piece].color = PIECE_RED /\ pieces[piece].row = 0) =>
         pieces[piece].is_king

\* A RED man has reached row 0 by a jump and stands there as a king.
C35_Witness ==
  /\ Jumped
  /\ prev.pieces[last.piece].color = PIECE_RED
  /\ ~prev.pieces[last.piece].is_king
  /\ pieces[last.piece].row = 0
  /\ pieces[last.piece].is_king

====
